---- MODULE Spec2Model ----
(***************************************************************************)
(* Verification model of movie_info (Media Forge): the incremental         *)
(* directory scanner with its mtime directory cache, the NFO sidecar codec *)
(* and save path, and the renderer's scan-generation bookkeeping.          *)
(*                                                                         *)
(* Strings that the program takes apart (file names, paths) are sequences  *)
(* of one-character strings, so that extname, basename, toLowerCase, join  *)
(* and the multi-part regular expression are computed, not assumed.        *)
(***************************************************************************)
EXTENDS Integers, Sequences, FiniteSets, Bags, TLC

(***************************************************************************)
(* Bounds of the model.                                                    *)
(***************************************************************************)
\* changes of directory entries by other programs in one behaviour
MaxEnvSteps == 1
\* changes of a directory's readability in one behaviour
MaxFailSteps == 1
\* rewrites of the sidecar by other programs in one behaviour
MaxNfoEdits == 1
\* handleScan calls in one behaviour
MaxGen == 2
\* the most readNfo calls of one batch that give no record
MaxReadFailures == 2

(***************************************************************************)
(* Text helpers: String.prototype.toLowerCase / toUpperCase, path.extname, *)
(* path.basename(name, ext), path.join.                                    *)
(***************************************************************************)
UpperChars == <<"A","B","C","D","E","F","G","H","I","J","K","L","M",
                "N","O","P","Q","R","S","T","U","V","W","X","Y","Z">>
LowerChars == <<"a","b","c","d","e","f","g","h","i","j","k","l","m",
                "n","o","p","q","r","s","t","u","v","w","x","y","z">>

UpperSet == { UpperChars[i] : i \in 1..26 }
LowerSet == { LowerChars[i] : i \in 1..26 }
LowerOf == [ c \in UpperSet |-> LowerChars[CHOOSE i \in 1..26 : UpperChars[i] = c] ]
UpperOf == [ c \in LowerSet |-> UpperChars[CHOOSE i \in 1..26 : LowerChars[i] = c] ]

LowerChar(c) == IF c \in UpperSet THEN LowerOf[c] ELSE c
UpperChar(c) == IF c \in LowerSet THEN UpperOf[c] ELSE c

ToLowerCase(s) == [i \in 1..Len(s) |-> LowerChar(s[i])]
ToUpperCase(s) == [i \in 1..Len(s) |-> UpperChar(s[i])]

\* index of the last occurrence of character c in s, 0 when there is none
LastIndexOf(s, c) ==
  IF \E i \in 1..Len(s) : s[i] = c
  THEN CHOOSE i \in 1..Len(s) : s[i] = c /\ \A j \in (i+1)..Len(s) : s[j] # c
  ELSE 0

\* path.extname of a bare file name: from the last "." to the end; "" when
\* there is no "." or the only "." is the first character
ExtName(name) ==
  LET i == LastIndexOf(name, ".")
  IN  IF i <= 1 THEN <<>> ELSE SubSeq(name, i, Len(name))

\* path.basename(name, ext) of a bare file name
BaseNameNoExt(name, ext) ==
  IF /\ Len(ext) > 0
     /\ Len(ext) < Len(name)
     /\ SubSeq(name, Len(name) - Len(ext) + 1, Len(name)) = ext
  THEN SubSeq(name, 1, Len(name) - Len(ext))
  ELSE name

\* the platform's path separator
SEP == "/"

\* path.join(dir, name)
Join(dir, name) == dir \o <<SEP>> \o name

\* ".nfo"
NfoExt == <<".", "n", "f", "o">>
\* "movie.nfo"
MovieNfo == <<"m", "o", "v", "i", "e">> \o NfoExt

\* common/types VIDEO_EXTENSIONS
VIDEO_EXTENSIONS ==
  { <<".", "m", "p", "4">>, <<".", "m", "k", "v">>, <<".", "a", "v", "i">>,
    <<".", "w", "m", "v">>, <<".", "m", "o", "v">>, <<".", "w", "e", "b", "m">>,
    <<".", "f", "l", "v">>, <<".", "f", "4", "v">>, <<".", "m", "p", "g">>,
    <<".", "m", "p", "e", "g">>, <<".", "m", "4", "v">>, <<".", "t", "s">>,
    <<".", "m", "t", "s">>, <<".", "m", "2", "t", "s">>, <<".", "v", "o", "b">>,
    <<".", "3", "g", "p">>, <<".", "o", "g", "v">>, <<".", "r", "m", "v", "b">>,
    <<".", "r", "m">> }

(***************************************************************************)
(* parseCdInfo: /[-_ .](cd|disc|disk|part)(\d+)$/i on the name without     *)
(* its extension.                                                          *)
(***************************************************************************)
Digits == <<"0","1","2","3","4","5","6","7","8","9">>
IsDigit(c) == \E i \in 1..10 : Digits[i] = c
DigitValue(c) == (CHOOSE i \in 1..10 : Digits[i] = c) - 1

CdSeparators == {"-", "_", " ", "."}
CdKeywords == { <<"c","d">>, <<"d","i","s","c">>, <<"d","i","s","k">>,
                <<"p","a","r","t">> }

\* parseInt(ds, 10) of a non-empty digit string
RECURSIVE ParseInt(_)
ParseInt(ds) ==
  IF Len(ds) = 0 THEN 0
  ELSE 10 * ParseInt(SubSeq(ds, 1, Len(ds) - 1)) + DigitValue(ds[Len(ds)])

\* a CD_PATTERN without its i flag
CdMatchAtCaseSensitive(s, i, kw) ==
  /\ s[i] \in CdSeparators
  /\ i + Len(kw) + 1 <= Len(s)
  /\ SubSeq(s, i + 1, i + Len(kw)) = kw
  /\ \A j \in (i + Len(kw) + 1)..Len(s) : IsDigit(s[j])

\* CD_PATTERN matches s with the separator at position i and keyword kw
CdMatchAt(s, i, kw) ==
  /\ s[i] \in CdSeparators
  /\ i + Len(kw) + 1 <= Len(s)
  /\ ToLowerCase(SubSeq(s, i + 1, i + Len(kw))) = kw
  /\ \A j \in (i + Len(kw) + 1)..Len(s) : IsDigit(s[j])

CdMatches(s) ==
  { m \in (1..Len(s)) \X CdKeywords : CdMatchAt(s, m[1], m[2]) }

parseCdInfo(fileName) ==
  LET nameWithoutExt == BaseNameNoExt(fileName, ExtName(fileName))
      ms == CdMatches(nameWithoutExt)
  IN  IF ms # {}
      THEN LET m == CHOOSE x \in ms : \A y \in ms : x[1] <= y[1]
           IN  [ baseName |-> SubSeq(nameWithoutExt, 1, m[1] - 1),
                 cdIndex  |-> ParseInt(SubSeq(nameWithoutExt,
                                  m[1] + Len(m[2]) + 1, Len(nameWithoutExt))) ]
      ELSE [ baseName |-> nameWithoutExt, cdIndex |-> 0 ]

(***************************************************************************)
(* findNfoFileFromCache: the sidecar of a video, looked up in the lower-   *)
(* cased names of the listing already fetched.  <<>> stands for null.      *)
(***************************************************************************)
\* a lookup that knows only the sidecar named after the video file itself
\* and movie.nfo
findNfoFileByVideoName(dir, baseName, videoFileName, fileNamesInDir) ==
  LET videoName == BaseNameNoExt(videoFileName, ExtName(videoFileName))
  IN  IF ToLowerCase(videoName \o NfoExt) \in fileNamesInDir
      THEN Join(dir, videoName \o NfoExt)
      ELSE IF MovieNfo \in fileNamesInDir
      THEN Join(dir, MovieNfo)
      ELSE <<>>

findNfoFileFromCache(dir, baseName, videoFileName, fileNamesInDir) ==
  LET videoName == BaseNameNoExt(videoFileName, ExtName(videoFileName))
  IN  IF ToLowerCase(baseName \o NfoExt) \in fileNamesInDir
      THEN Join(dir, baseName \o NfoExt)
      ELSE IF /\ videoName # baseName
              /\ ToLowerCase(videoName \o NfoExt) \in fileNamesInDir
      THEN Join(dir, videoName \o NfoExt)
      ELSE IF MovieNfo \in fileNamesInDir
      THEN Join(dir, MovieNfo)
      ELSE <<>>

(***************************************************************************)
(* The file system the scanner walks.  Canonical directories live on one   *)
(* share; on win32 the drive letter Z: is a mount of that share.           *)
(***************************************************************************)
\* "//s", the canonical (UNC) address of the share
Unc == <<SEP, SEP, "s">>
\* "Z:", "z:", a drive letter mounted on the share (win32)
Drive == <<"Z", ":">>
DriveLower == <<"z", ":">>

DirA == <<"a">>
DirB == <<"b">>
DirC == <<"c">>

UncA == Join(Unc, DirA)
UncB == Join(Unc, DirB)
UncAC == Join(UncA, DirC)

\* every directory that can exist, by canonical path
DirUniverse == { Unc, UncA, UncB, UncAC }

\* file names that occur: a video, a part of a split video with an upper-case
\* extension, a sidecar, and a file that is neither
FileMovie == <<"m", ".", "m", "k", "v">>
FilePart == <<"m", "-", "C", "D", "1", ".", "M", "K", "V">>
FileNfo == <<"M", ".", "n", "f", "o">>
FileText == <<"x", ".", "t", "x", "t">>
\* a movie in two parts and its sidecar
PartOne == <<"m", "-", "c", "d", "1", ".", "m", "k", "v">>
PartTwo == <<"m", "-", "c", "d", "2", ".", "m", "k", "v">>
PartsNfo == <<"m", ".", "n", "f", "o">>

\* the order in which readdir reports the names of a directory
NameOrder == << DirA, FileNfo, FileMovie, DirB, FilePart, DirC, FileText,
               PartTwo, PartsNfo, PartOne >>

VARIABLES
  platform,       \* process.platform
  settingsDirs,   \* settings.directories, the roots handed to scanDirectories
  fs,             \* canonical directory -> [exists, mtime, files, fail]
  clock,          \* source of fresh modification times
  envSteps,       \* changes of directory entries so far
  failSteps,      \* changes of readability so far
  driveMapCache,  \* scanner.ts driveMapCache: [built, map]
  dirCache,       \* DirCache: scanned path -> [mtime, videoFiles, subdirs]
  tasks,          \* scanDirectory calls in flight: [root, dir] -> frame
  timings,        \* ScanTimings of the running scanDirectories
  scanActive,     \* a scanDirectories call has not returned yet
  lastStats,      \* ScanStats returned by the last completed call
  cur,            \* observation of the current/last scanDirectories call
  prev,           \* observation of the call before it
  chgBetween,     \* directories whose mtime changed since the last call returned
  createdBetween  \* directories created since the last call returned

scanVars == << platform, settingsDirs, fs, clock, envSteps, failSteps, driveMapCache,
               dirCache, tasks, timings, scanActive, lastStats,
               cur, prev, chgBetween, createdBetween >>

IsPrefix(p, q) == Len(p) <= Len(q) /\ SubSeq(q, 1, Len(p)) = p

\* directory p is q or an ancestor of q
AtOrAbove(p, q) ==
  \/ p = q
  \/ IsPrefix(p \o <<SEP>>, q)

\* the parent of a canonical directory other than the share root
ParentDir(p) == SubSeq(p, 1, LastIndexOf(p, SEP) - 1)

\* the last component of a path
LastName(p) == SubSeq(p, LastIndexOf(p, SEP) + 1, Len(p))

\* what the operating system makes of a path: on win32 a path on the drive
\* letter (either case) is the same directory as the path on the share
HasDrive(p) == Len(p) >= 2 /\ ToUpperCase(SubSeq(p, 1, 2)) = Drive
Canon(p) ==
  IF platform = "win32" /\ HasDrive(p)
  THEN Unc \o SubSeq(p, 3, Len(p))
  ELSE p

DirExists(p) == Canon(p) \in DirUniverse /\ fs[Canon(p)].exists

\* fs.stat(dir) rejects
StatFails(p) == ~DirExists(p) \/ fs[Canon(p)].fail = "stat"
\* fs.readdir(dir) rejects
ReaddirFails(p) == ~DirExists(p) \/ fs[Canon(p)].fail # "none"

\* the names in canonical directory d
SubdirNames(d) ==
  { LastName(q) : q \in { x \in DirUniverse : fs[x].exists /\ x # Unc /\ ParentDir(x) = d } }

\* readdir(dir, {withFileTypes: true}): Dirent sequence
Readdir(p) ==
  LET d == Canon(p)
      present(n) == n \in SubdirNames(d) \/ n \in fs[d].files
      names == SelectSeq(NameOrder, present)
  IN  [ i \in 1..Len(names) |->
          [ name |-> names[i], isDirectory |-> names[i] \in SubdirNames(d) ] ]

(***************************************************************************)
(* Path Resolver: buildDriveMap and resolveUncPath.                        *)
(***************************************************************************)
\* what `net use` reports when it answers: Z: is mapped to the share
NetUseOutput == [ d \in {Drive} |-> Unc ]
NoDriveMap == [ d \in {} |-> Unc ]

\* /^[A-Z]:$/.test(drive)
IsDriveSpec(drive) ==
  /\ Len(drive) = 2
  /\ drive[1] \in UpperSet
  /\ drive[2] = ":"

\* buildDriveMap() on an empty driveMapCache: netOk says whether `net use`
\* answered within its timeout
buildDriveMap(netOk) ==
  IF platform # "win32" THEN NoDriveMap
  ELSE IF netOk THEN NetUseOutput ELSE NoDriveMap

\* resolveUncPath(filePath) with the drive map in hand
resolveUncPath(filePath, map) ==
  IF platform # "win32" THEN filePath
  ELSE LET drive == ToUpperCase(SubSeq(filePath, 1, IF Len(filePath) < 2 THEN Len(filePath) ELSE 2))
       IN  IF ~IsDriveSpec(drive) THEN filePath
           ELSE IF drive \notin DOMAIN map THEN filePath
           ELSE map[drive] \o SubSeq(filePath, 3, Len(filePath))

(***************************************************************************)
(* scanDirectory.  A call is a frame [pc, dirMtime, subdirs, i]; it yields *)
(* at `await stat`, `await readdir` and `await Promise.allSettled`, and    *)
(* runs atomically between two awaits.                                     *)
(***************************************************************************)
\* scanner.ts DIR_PARALLEL
DIR_PARALLEL == 20

\* the bag of the elements of a sequence
RECURSIVE SeqToBag(_)
SeqToBag(q) ==
  IF Len(q) = 0 THEN EmptyBag ELSE SetToBag({Head(q)}) (+) SeqToBag(Tail(q))

TaskOf(k, dir) == [ root |-> k, dir |-> dir ]
\* statOk records that the call's await stat resolved
NewFrame == [ pc |-> "stat", dirMtime |-> 0, subdirs |-> <<>>, i |-> 0, statOk |-> FALSE ]

Min(a, b) == IF a < b THEN a ELSE b

\* subdirs.slice(i, i + DIR_PARALLEL), as the positions it holds
BatchRange(subdirs, i) == (i + 1)..Min(i + DIR_PARALLEL, Len(subdirs))

\* batch.map((d) => scanDirectory(d, ...)): each call runs up to its await stat
SpawnBatchUnderEveryRoot(k, subdirs, i) ==
  [ t \in { TaskOf(r, subdirs[j]) : r \in 1..Len(settingsDirs), j \in BatchRange(subdirs, i) }
      |-> NewFrame ]
SpawnBatch(k, subdirs, i) ==
  [ t \in { TaskOf(k, subdirs[j]) : j \in BatchRange(subdirs, i) } |-> NewFrame ]

\* cached && cached.mtime === dirMtime
IsCacheHitIgnoringMtime(cache, dir, dirMtime) == dir \in DOMAIN cache
IsCacheHit(cache, dir, dirMtime) ==
  dir \in DOMAIN cache /\ cache[dir].mtime = dirMtime

\* the VideoFile built for a video entry of a listing
MakeVideoFile(dir, name, fileNamesInDir) ==
  LET cd == parseCdInfo(name)
  IN  [ path     |-> Join(dir, name),
        fileName |-> name,
        dirPath  |-> dir,
        size     |-> 0,
        nfoPath  |-> findNfoFileFromCache(dir, cd.baseName, name, fileNamesInDir),
        baseName |-> cd.baseName,
        cdIndex  |-> cd.cdIndex ]

IsVideoName(name) == ToLowerCase(ExtName(name)) \in VIDEO_EXTENSIONS

\* the catch block: the error is logged and the call resolves
CatchAbortingScan(t) ==
  /\ tasks' = [ x \in DOMAIN tasks |-> [ tasks[x] EXCEPT !.pc = "done" ] ]
  /\ cur' = [ cur EXCEPT !.failed = @ \cup {t.dir} ]
  /\ UNCHANGED << dirCache, timings >>
CatchDroppingEntry(t) ==
  /\ tasks' = [ tasks EXCEPT ![t].pc = "done" ]
  /\ cur' = [ cur EXCEPT !.failed = @ \cup {t.dir} ]
  /\ dirCache' = [ d \in DOMAIN dirCache \ {t.dir} |-> dirCache[d] ]
  /\ UNCHANGED timings
Catch(t) ==
  /\ tasks' = [ tasks EXCEPT ![t].pc = "done" ]
  /\ cur' = [ cur EXCEPT !.failed = @ \cup {t.dir} ]
  /\ UNCHANGED << dirCache, timings >>

\* recursion into subdirs, as far as the first await Promise.allSettled
Recurse(t, subdirs, tm, frame) ==
  IF Len(subdirs) > 0
  THEN /\ timings' = [ tm EXCEPT !.dirCount = @ + Len(subdirs) ]
       /\ tasks' = SpawnBatch(t.root, subdirs, 0) @@
                   [ tasks EXCEPT ![t] = [ frame EXCEPT !.pc = "wait",
                                                        !.subdirs = subdirs,
                                                        !.i = 0 ] ]
  ELSE /\ timings' = tm
       /\ tasks' = [ tasks EXCEPT ![t] = [ frame EXCEPT !.pc = "done" ] ]

\* the files a cache hit replays through onFound
ReplayNothing(cached) == <<>>
Replay(cached) == cached.videoFiles

\* lines 231-249: cache hit
CacheHit(t) ==
  LET cached == dirCache[t.dir]
      tm == [ timings EXCEPT !.cacheHits = @ + 1,
                             !.videoCount = @ + Len(cached.videoFiles) ]
      replayed == Replay(cached)
  IN  /\ cur' = [ cur EXCEPT !.found = @ (+) SeqToBag(replayed),
                             !.hits = @ \cup {t.dir},
                             !.last = IF Len(replayed) > 0
                                      THEN replayed[Len(replayed)].dirPath ELSE @ ]
      /\ Recurse(t, cached.subdirs, tm, [ tasks[t] EXCEPT !.statOk = TRUE ])
      /\ UNCHANGED dirCache

\* lines 251-253: cache miss, readdir is issued
CacheMissUncounted(t, dirMtime) ==
  /\ timings' = timings
  /\ tasks' = [ tasks EXCEPT ![t] = [ @ EXCEPT !.pc = "readdir", !.dirMtime = dirMtime,
                                               !.statOk = TRUE ] ]
  /\ cur' = [ cur EXCEPT !.listed = @ \cup {t.dir} ]
  /\ UNCHANGED dirCache
CacheMiss(t, dirMtime) ==
  /\ timings' = [ timings EXCEPT !.readdirCount = @ + 1 ]
  /\ tasks' = [ tasks EXCEPT ![t] = [ @ EXCEPT !.pc = "readdir", !.dirMtime = dirMtime,
                                               !.statOk = TRUE ] ]
  /\ cur' = [ cur EXCEPT !.listed = @ \cup {t.dir} ]
  /\ UNCHANGED dirCache

\* await stat(dir) returns (lines 227-253)
StatDone(t) ==
  /\ scanActive
  /\ t \in DOMAIN tasks
  /\ tasks[t].pc = "stat"
  /\ IF StatFails(t.dir)
     THEN Catch(t)
     ELSE LET dirMtime == fs[Canon(t.dir)].mtime
          IN  IF IsCacheHit(dirCache, t.dir, dirMtime)
              THEN CacheHit(t)
              ELSE CacheMiss(t, dirMtime)
  /\ UNCHANGED << platform, settingsDirs, fs, clock, envSteps, failSteps, driveMapCache,
                  scanActive, lastStats, prev, chgBetween, createdBetween >>

\* the cache entry written after a listing (line 286)
CacheEntryWithoutSubdirs(dirMtime, videoFiles, subdirs) ==
  [ mtime |-> dirMtime, videoFiles |-> videoFiles, subdirs |-> <<>> ]
CacheEntry(dirMtime, videoFiles, subdirs) ==
  [ mtime |-> dirMtime, videoFiles |-> videoFiles, subdirs |-> subdirs ]

\* lines 256-258: the lower-cased names of the entries that are not
\* directories
FileNamesInDirWithDirectories(entries) ==
  { ToLowerCase(entries[j].name) : j \in 1..Len(entries) }
FileNamesInDir(entries) ==
  LET isFile(e) == ~e.isDirectory
      fileEntries == SelectSeq(entries, isFile)
  IN  { ToLowerCase(fileEntries[j].name) : j \in 1..Len(fileEntries) }

\* lines 255-296: the listing arrived
Listed(t) ==
  LET dir == t.dir
      entries == Readdir(dir)
      isDir(e) == e.isDirectory
      isVideo(e) == ~e.isDirectory /\ IsVideoName(e.name)
      fileNamesInDir == FileNamesInDir(entries)
      dirEntries == SelectSeq(entries, isDir)
      videoEntries == SelectSeq(entries, isVideo)
      subdirs == [ j \in 1..Len(dirEntries) |-> Join(dir, dirEntries[j].name) ]
      videoFiles == [ j \in 1..Len(videoEntries) |->
                        MakeVideoFile(dir, videoEntries[j].name, fileNamesInDir) ]
      tm == [ timings EXCEPT !.videoCount = @ + Len(videoFiles) ]
  IN  /\ cur' = [ cur EXCEPT !.found = @ (+) SeqToBag(videoFiles),
                             !.last = IF Len(videoFiles) > 0 THEN dir ELSE @ ]
      /\ dirCache' = (dir :> CacheEntry(tasks[t].dirMtime, videoFiles, subdirs)) @@ dirCache
      /\ Recurse(t, subdirs, tm, tasks[t])

\* await readdir(dir) returns
ReaddirDone(t) ==
  /\ scanActive
  /\ t \in DOMAIN tasks
  /\ tasks[t].pc = "readdir"
  /\ IF ReaddirFails(t.dir) THEN Catch(t) ELSE Listed(t)
  /\ UNCHANGED << platform, settingsDirs, fs, clock, envSteps, failSteps, driveMapCache,
                  scanActive, lastStats, prev, chgBetween, createdBetween >>

\* await Promise.allSettled(batch) returns once every call of the batch settled
BatchSettled(t) ==
  /\ scanActive
  /\ t \in DOMAIN tasks
  /\ tasks[t].pc = "wait"
  /\ \A j \in BatchRange(tasks[t].subdirs, tasks[t].i) :
        tasks[TaskOf(t.root, tasks[t].subdirs[j])].pc = "done"
  /\ LET i2 == tasks[t].i + DIR_PARALLEL
     IN  IF i2 < Len(tasks[t].subdirs)
         THEN tasks' = SpawnBatch(t.root, tasks[t].subdirs, i2) @@
                       [ tasks EXCEPT ![t].i = i2 ]
         ELSE tasks' = [ tasks EXCEPT ![t].pc = "done" ]
  /\ UNCHANGED << platform, settingsDirs, fs, clock, envSteps, failSteps, driveMapCache, dirCache,
                  timings, scanActive, lastStats, cur, prev,
                  chgBetween, createdBetween >>

(***************************************************************************)
(* scanDirectories.                                                        *)
(***************************************************************************)
ZeroTimings == [ readdirCount |-> 0, cacheHits |-> 0, videoCount |-> 0, dirCount |-> 0 ]

\* what is observed of one scanDirectories call
NewRun(roots, between, created) ==
  [ roots   |-> roots,     \* the resolved roots
    found   |-> EmptyBag,  \* the files passed to onFound, with multiplicity
    failed  |-> {},        \* scanned paths whose stat or readdir rejected
    hits    |-> {},        \* scanned paths served from the cache
    listed  |-> {},        \* scanned paths whose readdir was issued
    last    |-> <<>>,      \* dirPath of the file passed to onFound last
    cache0  |-> << >>,     \* the DirCache as the call found it
    chg     |-> {},        \* directories whose mtime changed during the call
    between |-> between,   \* directories whose mtime changed before it, after the previous call
    created |-> created,   \* directories created in that interval
    done    |-> FALSE ]

NoRun == [ NewRun(<<>>, {}, {}) EXCEPT !.done = TRUE ]

\* some root needs the drive map: resolveUncPath calls buildDriveMap
NeedsDriveMap(dirs) ==
  /\ platform = "win32"
  /\ \E j \in 1..Len(dirs) :
        IsDriveSpec(ToUpperCase(SubSeq(dirs[j], 1, Min(2, Len(dirs[j])))))

\* lines 312-322: reset the drive map, resolve the roots, start one
\* scanDirectory per root
ScanDirectories ==
  /\ ~scanActive
  /\ \E netOk \in BOOLEAN :
       LET built == NeedsDriveMap(settingsDirs)
           map == IF built THEN buildDriveMap(netOk) ELSE NoDriveMap
           resolved == [ j \in 1..Len(settingsDirs) |-> resolveUncPath(settingsDirs[j], map) ]
       IN  /\ driveMapCache' = [ built |-> built, map |-> map ]
           /\ tasks' = [ t \in { TaskOf(j, resolved[j]) : j \in 1..Len(resolved) } |-> NewFrame ]
           /\ cur' = [ NewRun(resolved, chgBetween, createdBetween) EXCEPT !.cache0 = dirCache ]
  /\ prev' = cur
  /\ timings' = ZeroTimings
  /\ scanActive' = TRUE
  /\ chgBetween' = {}
  /\ createdBetween' = {}
  /\ UNCHANGED << platform, settingsDirs, fs, clock, envSteps, failSteps, dirCache, lastStats >>

\* lines 322-335: every root's call settled; the statistics are returned
ScanSettled ==
  /\ scanActive
  /\ \A j \in 1..Len(cur.roots) : tasks[TaskOf(j, cur.roots[j])].pc = "done"
  /\ lastStats' = timings
  /\ scanActive' = FALSE
  /\ tasks' = << >>
  /\ cur' = [ cur EXCEPT !.done = TRUE ]
  /\ UNCHANGED << platform, settingsDirs, fs, clock, envSteps, failSteps, driveMapCache, dirCache,
                  timings, prev, chgBetween, createdBetween >>

(***************************************************************************)
(* The environment: other programs change the directories; every change    *)
(* of a directory's entries gives the directory a fresh modification time. *)
(***************************************************************************)
\* files other programs create or delete, and the directories they do it in
EnvFiles == { FileMovie }
EnvDirs == { UncA, UncB }
\* directories whose permissions or availability change
EnvFailDirs == { UncA }

NoteChange(changed, created) ==
  IF scanActive
  THEN /\ cur' = [ cur EXCEPT !.chg = @ \cup changed ]
       /\ UNCHANGED << chgBetween, createdBetween >>
  ELSE /\ chgBetween' = chgBetween \cup changed
       /\ createdBetween' = createdBetween \cup created
       /\ UNCHANGED cur

EnvCommon ==
  UNCHANGED << platform, settingsDirs, driveMapCache, dirCache, tasks, timings,
               scanActive, lastStats, prev >>

\* a change of directory entries is counted in envSteps
EnvChange ==
  /\ EnvCommon
  /\ envSteps < MaxEnvSteps
  /\ envSteps' = envSteps + 1
  /\ UNCHANGED failSteps

EnvWriteFile(d, f) ==
  /\ EnvChange
  /\ fs[d].exists
  /\ f \notin fs[d].files
  /\ fs' = [ fs EXCEPT ![d].files = @ \cup {f}, ![d].mtime = clock + 1 ]
  /\ clock' = clock + 1
  /\ NoteChange({d}, {})

EnvDeleteFile(d, f) ==
  /\ EnvChange
  /\ fs[d].exists
  /\ f \in fs[d].files
  /\ fs' = [ fs EXCEPT ![d].files = @ \ {f}, ![d].mtime = clock + 1 ]
  /\ clock' = clock + 1
  /\ NoteChange({d}, {})

EnvMkDir(d) ==
  /\ EnvChange
  /\ d # Unc
  /\ ~fs[d].exists
  /\ fs[ParentDir(d)].exists
  /\ fs' = [ fs EXCEPT ![d].exists = TRUE, ![d].mtime = clock + 1,
                       ![ParentDir(d)].mtime = clock + 1 ]
  /\ clock' = clock + 1
  /\ NoteChange({d, ParentDir(d)}, {d})

\* a directory becomes unreadable (mode "stat": stat rejects; mode "readdir":
\* stat answers, readdir rejects) or readable again; its mtime is untouched
EnvSetFail(d, mode) ==
  /\ EnvCommon
  /\ failSteps < MaxFailSteps
  /\ failSteps' = failSteps + 1
  /\ UNCHANGED envSteps
  /\ fs[d].exists
  /\ fs[d].fail # mode
  /\ fs' = [ fs EXCEPT ![d].fail = mode ]
  /\ UNCHANGED << clock, cur, chgBetween, createdBetween >>

\* a change of directory entries
EnvFsStep ==
  \/ \E d \in EnvDirs, f \in EnvFiles : EnvWriteFile(d, f)
  \/ \E d \in EnvDirs, f \in EnvFiles : EnvDeleteFile(d, f)
  \/ \E d \in DirUniverse : EnvMkDir(d)

\* a change of readability
EnvFailStep ==
  \E d \in EnvFailDirs, mode \in {"none", "stat", "readdir"} : EnvSetFail(d, mode)

(***************************************************************************)
(* The scanner's initial states.                                           *)
(***************************************************************************)
RootChoices == { <<Join(DriveLower, DirA), UncA>>, <<Unc, UncA>>, <<UncA, UncB>> }

InitFs ==
  [ d \in DirUniverse |->
      [ exists |-> d # UncAC,
        mtime  |-> 0,
        files  |-> IF d = UncA THEN {FileMovie}
                   ELSE IF d = UncB THEN {FilePart, FileNfo}
                   ELSE {},
        fail   |-> "none" ] ]

ScanInit ==
  /\ platform \in {"win32", "linux"}
  /\ settingsDirs \in RootChoices
  /\ fs = InitFs
  /\ clock = 0
  /\ envSteps = 0
  /\ failSteps = 0
  /\ driveMapCache = [ built |-> FALSE, map |-> NoDriveMap ]
  /\ dirCache = << >>
  /\ tasks = << >>
  /\ timings = ZeroTimings
  /\ scanActive = FALSE
  /\ lastStats = ZeroTimings
  /\ cur = NoRun
  /\ prev = NoRun
  /\ chgBetween = {}
  /\ createdBetween = {}

(***************************************************************************)
(* JavaScript values, as far as the metadata codec handles them.  A value  *)
(* of unknown type is tagged by the one field its record has.              *)
(***************************************************************************)
Str(s) == [ str |-> s ]
Num(n) == [ num |-> n ]
Bool(b) == [ bool |-> b ]
Arr(a) == [ arr |-> a ]
Obj(o) == [ obj |-> o ]
Undefined == [ undef |-> TRUE ]
Null == [ null |-> TRUE ]

IsStr(v) == DOMAIN v = {"str"}
IsNum(v) == DOMAIN v = {"num"}
IsBool(v) == DOMAIN v = {"bool"}
IsArr(v) == DOMAIN v = {"arr"}
IsObj(v) == DOMAIN v = {"obj"}
IsUndefined(v) == DOMAIN v = {"undef"}

EmptyMap == [ k \in {} |-> Undefined ]

\* cond ? {key: val} : {}
Opt(cond, key, val) == IF cond THEN key :> val ELSE EmptyMap

\* o[key] for an own property of an object; undefined on anything else
Get(o, key) == IF IsObj(o) /\ key \in DOMAIN o.obj THEN o.obj[key] ELSE Undefined

\* the decimal form of the numbers that occur, and the numbers of the texts
\* that are numeric ("007" parses to 7 and prints as "7")
NumText == (0 :> "0") @@ (1 :> "1") @@ (2 :> "2") @@ (7 :> "7") @@ (10 :> "10") @@ (100 :> "100")
TextNum == ("0" :> 0) @@ ("1" :> 1) @@ ("2" :> 2) @@ ("7" :> 7) @@ ("007" :> 7)
           @@ ("10" :> 10) @@ ("100" :> 100)

\* truthiness: if (v), !v, v || d
Truthy(v) ==
  IF IsUndefined(v) THEN FALSE
  ELSE IF IsStr(v) THEN v.str # ""
  ELSE IF IsNum(v) THEN v.num # 0
  ELSE IF IsBool(v) THEN v.bool
  ELSE TRUE

\* String(v)
RECURSIVE String(_)
String(v) ==
  IF IsStr(v) THEN v.str
  ELSE IF IsNum(v) THEN NumText[v.num]
  ELSE IF IsBool(v) THEN (IF v.bool THEN "true" ELSE "false")
  ELSE IF IsUndefined(v) THEN "undefined"
  ELSE IF IsObj(v) THEN "[object Object]"
  ELSE \* Array.prototype.join(",")
       IF Len(v.arr) = 0 THEN ""
       ELSE IF Len(v.arr) = 1 THEN (IF IsUndefined(v.arr[1]) THEN "" ELSE String(v.arr[1]))
       ELSE (IF IsUndefined(v.arr[1]) THEN "" ELSE String(v.arr[1]))
            \o "," \o String(Arr(Tail(v.arr)))

\* Number(v) || dflt  (NaN and 0 are falsy)
RECURSIVE NumberOr(_, _)
NumberOr(v, dflt) ==
  LET n == IF IsNum(v) THEN v.num
           ELSE IF IsStr(v) THEN (IF v.str = "" THEN 0
                                  ELSE IF v.str \in DOMAIN TextNum THEN TextNum[v.str]
                                  ELSE 0)
           ELSE IF IsBool(v) THEN (IF v.bool THEN 1 ELSE 0)
           ELSE IF IsArr(v) /\ Len(v.arr) = 1 THEN NumberOr(v.arr[1], 0)
           ELSE 0
  IN  IF n = 0 THEN dflt ELSE n

\* the elements of a finite set of strings, in a fixed order
RECURSIVE SetToSeq(_)
SetToSeq(S) ==
  IF S = {} THEN << >>
  ELSE LET x == CHOOSE y \in S : TRUE
       IN  <<x>> \o SetToSeq(S \ {x})

(***************************************************************************)
(* XML documents.  A document is the children of a node, grouped by tag:   *)
(* tag -> the elements of that tag in document order; an element has       *)
(* attributes, text and children.  The order of differently named siblings *)
(* is left out: neither the parser's result nor the builder's depends on   *)
(* it.                                                                     *)
(***************************************************************************)
NoAttrs == [ a \in {} |-> "" ]
EmptyDoc == [ t \in {} |-> << >> ]
TextElem(s) == [ attrs |-> NoAttrs, text |-> s, kids |-> EmptyDoc ]
AttrElem(attrs, s) == [ attrs |-> attrs, text |-> s, kids |-> EmptyDoc ]
NodeElem(kids) == [ attrs |-> NoAttrs, text |-> "", kids |-> kids ]

\* attribute names that occur, and attributeNamePrefix: '@_'
AttrNames == { "name", "max", "default", "type", "aspect" }
AttrKey(a) == "@_" \o a
AttrKeys == { AttrKey(a) : a \in AttrNames }
AttrOf(k) == CHOOSE a \in AttrNames : AttrKey(a) = k
TextNodeName == "#text"

\* parserOptions.isArray
isArray(name) ==
  name \in { "genre", "director", "credits", "studio", "country", "tag",
             "actor", "rating", "thumb", "uniqueid" }

\* fast-xml-parser's parseValue on trimmed text (parseTagValue and
\* parseAttributeValue): booleans and numbers are converted
parseValue(s) ==
  IF s = "true" THEN Bool(TRUE)
  ELSE IF s = "false" THEN Bool(FALSE)
  ELSE IF s \in DOMAIN TextNum THEN Num(TextNum[s])
  ELSE Str(s)

\* XMLParser.parse: an element without attributes and children is its text;
\* any other is an object of '@_' attributes, children and '#text'; a tag is
\* an array when isArray says so or when it repeats
RECURSIVE ParseElem(_), ParseKids(_)
ParseElem(e) ==
  IF DOMAIN e.attrs = {} /\ DOMAIN e.kids = {}
  THEN parseValue(e.text)
  ELSE Obj( [ k \in { AttrKey(a) : a \in DOMAIN e.attrs } |-> parseValue(e.attrs[AttrOf(k)]) ]
            @@ ParseKids(e.kids)
            @@ Opt(e.text # "", TextNodeName, parseValue(e.text)) )
ParseKids(doc) ==
  [ tag \in DOMAIN doc |->
      IF isArray(tag) \/ Len(doc[tag]) > 1
      THEN Arr([ i \in 1..Len(doc[tag]) |-> ParseElem(doc[tag][i]) ])
      ELSE ParseElem(doc[tag][1]) ]

\* XMLBuilder.build: an array becomes repeated elements, an object an element
\* with its '@_' keys as attributes and '#text' as text, anything else a text
\* element; undefined values and empty arrays emit nothing
RECURSIVE BuildElem(_), BuildKids(_)
BuildElem(v) ==
  IF IsObj(v)
  THEN LET o == v.obj
           attrKeys == { k \in DOMAIN o \cap AttrKeys : ~IsUndefined(o[k]) }
           kidKeys == DOMAIN o \ (AttrKeys \cup {TextNodeName})
       IN  [ attrs |-> [ a \in { AttrOf(k) : k \in attrKeys } |-> String(o[AttrKey(a)]) ],
             text  |-> IF TextNodeName \in DOMAIN o /\ ~IsUndefined(o[TextNodeName])
                       THEN String(o[TextNodeName]) ELSE "",
             kids  |-> BuildKids([ k \in kidKeys |-> o[k] ]) ]
  ELSE TextElem(String(v))
BuildKids(o) ==
  LET emitted == { k \in DOMAIN o :
                      /\ ~IsUndefined(o[k])
                      /\ IsArr(o[k]) => Len(o[k].arr) > 0 }
  IN  [ k \in emitted |->
          IF IsArr(o[k])
          THEN [ i \in 1..Len(o[k].arr) |-> BuildElem(o[k].arr[i]) ]
          ELSE << BuildElem(o[k]) >> ]

(***************************************************************************)
(* nfo.ts: NfoData and its two conversions.  An NfoData is a record of the *)
(* 23 fields of the interface plus whatever other keys it carries.         *)
(***************************************************************************)
KnownKeys ==
  { "title", "originaltitle", "sorttitle", "year", "premiered", "plot", "outline",
    "tagline", "runtime", "mpaa", "genres", "directors", "credits", "studios",
    "countries", "tags", "actors", "ratings", "userrating", "uniqueids", "poster",
    "fanart", "trailer" }

\* the top-level tags normalizeNfoData reads
MappedTags ==
  { "title", "originaltitle", "sorttitle", "year", "premiered", "plot", "outline",
    "tagline", "runtime", "mpaa", "genre", "director", "credits", "studio",
    "country", "tag", "actor", "ratings", "userrating", "uniqueid", "thumb",
    "fanart", "trailer" }

getString(val) == IF IsUndefined(val) THEN "" ELSE String(val)

toStringArray(val) ==
  IF ~Truthy(val) THEN << >>
  ELSE IF IsArr(val) THEN [ i \in 1..Len(val.arr) |-> String(val.arr[i]) ]
  ELSE << String(val) >>

\* Array.isArray(val) ? val : [val]
AsArray(val) == IF IsArr(val) THEN val.arr ELSE << val >>

parseActors(val) ==
  IF ~Truthy(val) THEN << >>
  ELSE LET arr == AsArray(val)
       IN  [ i \in 1..Len(arr) |->
               [ name  |-> getString(Get(arr[i], "name")),
                 role  |-> getString(Get(arr[i], "role")),
                 order |-> IF IsNum(Get(arr[i], "order")) THEN Get(arr[i], "order")
                           ELSE Undefined,
                 thumb |-> IF getString(Get(arr[i], "thumb")) # ""
                           THEN Str(getString(Get(arr[i], "thumb")))
                           ELSE Undefined ] ]

parseRatings(val) ==
  IF ~Truthy(val) THEN << >>
  ELSE LET ratings == Get(val, "rating")
       IN  IF ~Truthy(ratings) THEN << >>
           ELSE LET arr == AsArray(ratings)
                IN  [ i \in 1..Len(arr) |->
                        [ name    |-> getString(Get(arr[i], "@_name")),
                          value   |-> NumberOr(Get(arr[i], "value"), 0),
                          votes   |-> NumberOr(Get(arr[i], "votes"), 0),
                          max     |-> NumberOr(Get(arr[i], "@_max"), 10),
                          default |-> Truthy(Get(arr[i], "@_default")) ] ]

parseUniqueIds(val) ==
  IF ~Truthy(val) THEN [ t \in {} |-> "" ]
  ELSE LET arr == AsArray(val)
           typeOf(uid) == IF getString(Get(uid, "@_type")) # ""
                          THEN getString(Get(uid, "@_type")) ELSE "default"
           objs == { i \in 1..Len(arr) : IsObj(arr[i]) \/ IsArr(arr[i]) }
           last(t) == CHOOSE i \in objs :
                         /\ typeOf(arr[i]) = t
                         /\ \A j \in objs : typeOf(arr[j]) = t => j <= i
       IN  [ t \in { typeOf(arr[i]) : i \in objs } |-> getString(Get(arr[last(t)], TextNodeName)) ]

parsePosterThumb(val) ==
  IF ~Truthy(val) THEN ""
  ELSE IF IsArr(val)
  THEN LET isPoster(t) == Get(t, "@_aspect") = Str("poster") \/ IsStr(t)
           hits == { i \in 1..Len(val.arr) : isPoster(val.arr[i]) }
       IN  IF hits = {} THEN ""
           ELSE LET poster == val.arr[CHOOSE i \in hits : \A j \in hits : i <= j]
                IN  IF IsStr(poster) THEN poster.str
                    ELSE getString(Get(poster, TextNodeName))
  ELSE IF IsStr(val) THEN val.str
  ELSE getString(Get(val, TextNodeName))

parseFanart(val) ==
  IF ~Truthy(val) THEN ""
  ELSE LET thumb == Get(val, "thumb")
       IN  IF IsArr(thumb) /\ Len(thumb.arr) > 0
           THEN (IF IsStr(thumb.arr[1]) THEN thumb.arr[1].str
                 ELSE getString(Get(thumb.arr[1], TextNodeName)))
           ELSE IF IsStr(thumb) THEN thumb.str
           ELSE IF IsObj(thumb) THEN getString(Get(thumb, TextNodeName))
           ELSE ""

normalizeNfoData(movie) ==
  [ title         |-> getString(Get(movie, "title")),
    originaltitle |-> getString(Get(movie, "originaltitle")),
    sorttitle     |-> getString(Get(movie, "sorttitle")),
    year          |-> getString(Get(movie, "year")),
    premiered     |-> getString(Get(movie, "premiered")),
    plot          |-> getString(Get(movie, "plot")),
    outline       |-> getString(Get(movie, "outline")),
    tagline       |-> getString(Get(movie, "tagline")),
    runtime       |-> getString(Get(movie, "runtime")),
    mpaa          |-> getString(Get(movie, "mpaa")),
    genres        |-> toStringArray(Get(movie, "genre")),
    directors     |-> toStringArray(Get(movie, "director")),
    credits       |-> toStringArray(Get(movie, "credits")),
    studios       |-> toStringArray(Get(movie, "studio")),
    countries     |-> toStringArray(Get(movie, "country")),
    tags          |-> toStringArray(Get(movie, "tag")),
    actors        |-> parseActors(Get(movie, "actor")),
    ratings       |-> parseRatings(Get(movie, "ratings")),
    userrating    |-> getString(Get(movie, "userrating")),
    uniqueids     |-> parseUniqueIds(Get(movie, "uniqueid")),
    poster        |-> parsePosterThumb(Get(movie, "thumb")),
    fanart        |-> parseFanart(Get(movie, "fanart")),
    trailer       |-> getString(Get(movie, "trailer")) ]

\* a list of strings as an array value
StrArr(list) == Arr([ i \in 1..Len(list) |-> Str(list[i]) ])

denormalizeNfoData(data) ==
  Opt(data.title # "", "title", Str(data.title))
  @@ Opt(data.originaltitle # "", "originaltitle", Str(data.originaltitle))
  @@ Opt(data.sorttitle # "", "sorttitle", Str(data.sorttitle))
  @@ Opt(data.year # "", "year", Str(data.year))
  @@ Opt(data.premiered # "", "premiered", Str(data.premiered))
  @@ Opt(data.plot # "", "plot", Str(data.plot))
  @@ Opt(data.outline # "", "outline", Str(data.outline))
  @@ Opt(data.tagline # "", "tagline", Str(data.tagline))
  @@ Opt(data.runtime # "", "runtime", Str(data.runtime))
  @@ Opt(data.mpaa # "", "mpaa", Str(data.mpaa))
  @@ Opt(data.userrating # "", "userrating", Str(data.userrating))
  @@ Opt(data.trailer # "", "trailer", Str(data.trailer))
  @@ Opt(Len(data.genres) > 0, "genre", StrArr(data.genres))
  @@ Opt(Len(data.directors) > 0, "director", StrArr(data.directors))
  @@ Opt(Len(data.credits) > 0, "credits", StrArr(data.credits))
  @@ Opt(Len(data.studios) > 0, "studio", StrArr(data.studios))
  @@ Opt(Len(data.countries) > 0, "country", StrArr(data.countries))
  @@ Opt(Len(data.tags) > 0, "tag", StrArr(data.tags))
  @@ Opt(Len(data.actors) > 0, "actor",
         Arr([ i \in 1..Len(data.actors) |->
                 LET a == data.actors[i]
                 IN  Obj( ("name" :> Str(a.name))
                          @@ Opt(a.role # "", "role", Str(a.role))
                          @@ Opt(~IsUndefined(a.order), "order", a.order)
                          @@ Opt(Truthy(a.thumb), "thumb", a.thumb) ) ]))
  @@ Opt(Len(data.ratings) > 0, "ratings",
         Obj("rating" :>
               Arr([ i \in 1..Len(data.ratings) |->
                       LET r == data.ratings[i]
                       IN  Obj( ("@_name" :> Str(r.name))
                                @@ ("@_max" :> Num(r.max))
                                @@ ("@_default" :> Bool(r.default))
                                @@ ("value" :> Num(r.value))
                                @@ ("votes" :> Num(r.votes)) ) ])))
  @@ Opt(DOMAIN data.uniqueids # {}, "uniqueid",
         LET types == SetToSeq(DOMAIN data.uniqueids)
         IN  Arr([ i \in 1..Len(types) |->
                     Obj( ("@_type" :> Str(types[i]))
                          @@ (TextNodeName :> Str(data.uniqueids[types[i]])) ) ]))

createEmptyNfo ==
  [ title |-> "", originaltitle |-> "", sorttitle |-> "", year |-> "", premiered |-> "",
    plot |-> "", outline |-> "", tagline |-> "", runtime |-> "", mpaa |-> "",
    genres |-> << >>, directors |-> << >>, credits |-> << >>, studios |-> << >>,
    countries |-> << >>, tags |-> << >>, actors |-> << >>, ratings |-> << >>,
    userrating |-> "", uniqueids |-> [ t \in {} |-> "" ], poster |-> "", fanart |-> "",
    trailer |-> "" ]

\* the file content saveNfo writes: the XML declaration is left out
SerializeNfo(data) == "movie" :> << BuildElem(Obj(denormalizeNfoData(data))) >>

\* what readNfo makes of a file's content: parsed.movie || {}
ParseNfo(content) ==
  LET parsed == Obj(ParseKids(content))
      movie == IF Truthy(Get(parsed, "movie")) THEN Get(parsed, "movie") ELSE Obj(EmptyMap)
  IN  normalizeNfoData(movie)

\* the fields of a record that the interface does not name
UnknownFields(data) == [ k \in DOMAIN data \ KnownKeys |-> data[k] ]

(***************************************************************************)
(* The metadata editor: one selected group with one sidecar path.          *)
(***************************************************************************)
VARIABLES
  nfoFile,        \* the sidecar file: NoFile or [xml |-> document]
  bakFile,        \* the file at <path>.bak
  groupNfoPath,   \* selectedGroup.nfoPath is set
  nfoData,        \* App state nfoData: Null or an NfoData
  save,           \* the saveNfo call in flight: [pc, data, copy]
  saveResult,     \* what the last save-nfo call returned: "none", "ok", "failed"
  rt,             \* observation: [phase, first], the read a save chain started from
  lastWrite,      \* observation of the last writeFile of saveNfo
  nfoEdits,       \* changes of the sidecar by other programs so far
  partsNfoPath,   \* the group's parts in rawFiles carry an nfoPath
  nfoMapEntry,    \* nfoMap.get(selectedGroup.key): Null or an NfoData
  saveReply,      \* Null or the object the last 'save-nfo' call resolved with
  writeRejected   \* observation: the writeFile of the last saveNfo rejected

nfoVars == << nfoFile, bakFile, groupNfoPath, nfoData, save, saveResult, rt,
              lastWrite, nfoEdits, partsNfoPath, nfoMapEntry, saveReply, writeRejected >>

NoFile == [ absent |-> TRUE ]
File(xml) == [ xml |-> xml ]

NoSave == [ pc |-> "idle", data |-> Null, copy |-> "none" ]
NoWrite == [ wrote |-> FALSE, overwrote |-> FALSE, copy |-> "none", backedUp |-> FALSE ]
NoChain == [ phase |-> "none", first |-> Null ]

\* form.setFieldsValue(...) of the property panel: the form starts from nfoData
FormValues(data) ==
  [ title |-> data.title, originaltitle |-> data.originaltitle, year |-> data.year,
    premiered |-> data.premiered, plot |-> data.plot, outline |-> data.outline,
    tagline |-> data.tagline, runtime |-> data.runtime, mpaa |-> data.mpaa,
    genres |-> data.genres, directors |-> data.directors, studios |-> data.studios,
    countries |-> data.countries, tags |-> data.tags, actors |-> data.actors,
    userrating |-> data.userrating, trailer |-> data.trailer ]

\* PropertyPanel.handleSave: the record handed to onSave
handleSave(data, values) ==
  [ title         |-> values.title,
    originaltitle |-> values.originaltitle,
    sorttitle     |-> data.sorttitle,
    year          |-> values.year,
    premiered     |-> values.premiered,
    plot          |-> values.plot,
    outline       |-> values.outline,
    tagline       |-> values.tagline,
    runtime       |-> values.runtime,
    mpaa          |-> values.mpaa,
    genres        |-> values.genres,
    directors     |-> values.directors,
    credits       |-> data.credits,
    studios       |-> values.studios,
    countries     |-> values.countries,
    tags          |-> values.tags,
    actors        |-> [ i \in 1..Len(values.actors) |->
                          [ name  |-> values.actors[i].name,
                            role  |-> values.actors[i].role,
                            order |-> Num(i - 1),
                            thumb |-> values.actors[i].thumb ] ],
    ratings       |-> data.ratings,
    userrating    |-> values.userrating,
    uniqueids     |-> data.uniqueids,
    poster        |-> data.poster,
    fanart        |-> data.fanart,
    trailer       |-> values.trailer ]
  @@ data

\* titles the user types into the form
EditTitles == { "", "B" }

\* the sidecars that occur: every tag of the richest one, and documents made
\* of some of its tags
FullKids ==
  ("title" :> << TextElem("007") >>)
  @@ ("genre" :> << TextElem("G"), TextElem("H") >>)
  @@ ("credits" :> << TextElem("W") >>)
  @@ ("actor" :> << NodeElem( ("name" :> << TextElem("N") >>)
                              @@ ("role" :> << TextElem("R") >>)
                              @@ ("thumb" :> << TextElem("n.jpg") >>) ) >>)
  @@ ("ratings" :>
        << NodeElem("rating" :>
             << [ attrs |-> ("name" :> "imdb") @@ ("max" :> "10") @@ ("default" :> "true"),
                  text  |-> "",
                  kids  |-> ("value" :> << TextElem("7") >>)
                            @@ ("votes" :> << TextElem("100") >>) ] >>) >>)
  @@ ("uniqueid" :> << AttrElem("type" :> "imdb", "tt1"), TextElem("tt2") >>)
  @@ ("thumb" :> << AttrElem("aspect" :> "poster", "p.jpg") >>)
  @@ ("fanart" :> << NodeElem("thumb" :> << TextElem("f.jpg") >>) >>)
  @@ ("set" :> << TextElem("S") >>)
  @@ ("fileinfo" :> << NodeElem("streamdetails" :> << TextElem("v") >>) >>)

TagChoices ==
  { {},
    {"title"},
    {"title", "set"},
    {"title", "thumb", "fanart"},
    {"title", "credits", "ratings", "uniqueid"},
    DOMAIN FullKids }

MovieDoc(kids) == "movie" :> << NodeElem(kids) >>
SampleDocs == { MovieDoc([ t \in T |-> FullKids[t] ]) : T \in TagChoices }

\* readNfo(nfoPath) behind the 'read-nfo' handler: null when readFile rejects
readNfo(file) == IF file = NoFile THEN Null ELSE ParseNfo(file.xml)

\* App.handleSelectGroup: load the sidecar of the group, or an empty record
HandleSelectGroup ==
  /\ save.pc = "idle"
  /\ nfoData' = IF groupNfoPath THEN readNfo(nfoFile) ELSE createEmptyNfo
  /\ rt' = IF ~groupNfoPath THEN NoChain
           ELSE IF rt.phase = "saved" THEN [ rt EXCEPT !.phase = "reread" ]
           ELSE [ phase |-> "read", first |-> readNfo(nfoFile) ]
  /\ UNCHANGED << nfoFile, bakFile, groupNfoPath, save, saveResult, lastWrite, nfoEdits,
                  partsNfoPath, nfoMapEntry, saveReply, writeRejected >>

\* PropertyPanel.handleSave then App.handleSaveNfo up to the save-nfo call:
\* saveNfo starts with the record built from nfoData and the form
HandleSave(title) ==
  /\ save.pc = "idle"
  /\ nfoData # Null
  /\ LET values == [ FormValues(nfoData) EXCEPT !.title = title ]
     IN  save' = [ pc |-> "backup", data |-> handleSave(nfoData, values), copy |-> "none" ]
  /\ rt' = IF rt.phase \in {"read", "saved"} THEN [ rt EXCEPT !.phase = "saving" ]
           ELSE IF rt.phase = "reread" THEN [ phase |-> "saving", first |-> nfoData ]
           ELSE NoChain
  /\ UNCHANGED << nfoFile, bakFile, groupNfoPath, nfoData, saveResult, lastWrite, nfoEdits,
                  partsNfoPath, nfoMapEntry, saveReply, writeRejected >>

\* saveNfo lines 55-59: copyFile(nfoPath, nfoPath.bak) inside try/catch.  The
\* copy rejects when the sidecar does not exist, and may reject for another
\* reason (the .bak is not writable, the disk is full); every rejection is
\* swallowed
SaveBackup(copyOk) ==
  /\ save.pc = "backup"
  /\ IF nfoFile = NoFile
     THEN /\ save' = [ save EXCEPT !.pc = "write", !.copy = "absent" ]
          /\ UNCHANGED bakFile
     ELSE IF copyOk
     THEN /\ bakFile' = nfoFile
          /\ save' = [ save EXCEPT !.pc = "write", !.copy = "copied" ]
     ELSE /\ save' = [ save EXCEPT !.pc = "write", !.copy = "failed" ]
          /\ UNCHANGED bakFile
  /\ UNCHANGED << nfoFile, groupNfoPath, nfoData, saveResult, rt, lastWrite, nfoEdits,
                  partsNfoPath, nfoMapEntry, saveReply, writeRejected >>

\* String(err) of the Error a rejected writeFile carries
WriteError == "EACCES: permission denied"
ErrorToString(message) == "Error: " \o message

\* ipcMain.handle('save-nfo') (index.ts 84-95): what the call resolves with
SaveNfoReplyAlwaysSuccess(writeOk) == [ success |-> TRUE ]
SaveNfoReply(writeOk) ==
  IF writeOk THEN [ success |-> TRUE ]
  ELSE [ success |-> FALSE, error |-> ErrorToString(WriteError) ]

\* saveNfo lines 61-67 and the rest of App.handleSaveNfo (lines 340-367):
\* writeFile succeeds or rejects, 'save-nfo' answers, and on success the
\* saved record becomes nfoData and the group's entry of nfoMap, and a group
\* that had no sidecar path gets one, in its parts and in selectedGroup
SaveWrite(writeOk) ==
  /\ save.pc = "write"
  /\ writeRejected' = ~writeOk
  /\ IF writeOk
     THEN /\ nfoFile' = File(SerializeNfo(save.data))
          /\ lastWrite' = [ wrote     |-> TRUE,
                            overwrote |-> nfoFile # NoFile,
                            copy      |-> save.copy,
                            backedUp  |-> bakFile = nfoFile ]
     ELSE UNCHANGED << nfoFile, lastWrite >>
  /\ saveReply' = SaveNfoReply(writeOk)
  /\ IF SaveNfoReply(writeOk).success
     THEN /\ nfoData' = save.data
          /\ nfoMapEntry' = save.data
          /\ groupNfoPath' = TRUE
          /\ partsNfoPath' = IF groupNfoPath THEN partsNfoPath ELSE TRUE
          /\ saveResult' = "ok"
          /\ rt' = IF rt.phase = "saving" THEN [ rt EXCEPT !.phase = "saved" ] ELSE NoChain
     ELSE /\ saveResult' = "failed"
          /\ rt' = NoChain
          /\ UNCHANGED << nfoData, nfoMapEntry, groupNfoPath, partsNfoPath >>
  /\ save' = NoSave
  /\ UNCHANGED << bakFile, nfoEdits >>

\* another program rewrites the sidecar
ExternalWrite(doc) ==
  /\ save.pc = "idle"
  /\ nfoEdits < MaxNfoEdits
  /\ nfoEdits' = nfoEdits + 1
  /\ nfoFile' = File(doc)
  /\ rt' = NoChain
  /\ UNCHANGED << bakFile, groupNfoPath, nfoData, save, saveResult, lastWrite,
                  partsNfoPath, nfoMapEntry, saveReply, writeRejected >>

NfoInit ==
  /\ nfoFile \in { File(d) : d \in SampleDocs } \cup { NoFile }
  /\ bakFile = NoFile
  /\ groupNfoPath = (nfoFile # NoFile)
  /\ nfoData = Null
  /\ save = NoSave
  /\ saveResult = "none"
  /\ rt = NoChain
  /\ lastWrite = NoWrite
  /\ nfoEdits = 0
  /\ partsNfoPath = groupNfoPath
  /\ nfoMapEntry = readNfo(nfoFile)
  /\ saveReply = Null
  /\ writeRejected = FALSE

\* the editor is not in use
NfoIdle ==
  /\ nfoFile = NoFile
  /\ bakFile = NoFile
  /\ groupNfoPath = FALSE
  /\ nfoData = Null
  /\ save = NoSave
  /\ saveResult = "none"
  /\ rt = NoChain
  /\ lastWrite = NoWrite
  /\ nfoEdits = 0
  /\ partsNfoPath = FALSE
  /\ nfoMapEntry = Null
  /\ saveReply = Null
  /\ writeRejected = FALSE

(***************************************************************************)
(* The codec on its own: a record is serialized and the result parsed.     *)
(***************************************************************************)
VARIABLES
  codecIn,    \* the record handed to denormalizeNfoData
  codecXml,   \* NoFile or the document built from it
  codecOut    \* Null or the record parsed back

codecVars == << codecIn, codecXml, codecOut >>

\* keys outside the interface that a record may carry, with their values
UnknownChoices ==
  { EmptyMap,
    "set" :> Str("S"),
    ("set" :> Str("S")) @@ ("fileinfo" :> Obj("streamdetails" :> Str("v"))) }

SampleRecords ==
  { [ createEmptyNfo EXCEPT !.title = t, !.genres = g, !.credits = c,
                            !.uniqueids = u, !.poster = p ] @@ x :
      t \in { "", "A" },
      g \in { << >>, << "G" >>, << "G", "H" >> },
      c \in { << >>, << "W" >> },
      u \in { [ k \in {} |-> "" ], "imdb" :> "tt1" },
      p \in { "", "p.jpg" },
      x \in UnknownChoices }

\* denormalizeNfoData and XMLBuilder.build
CodecSerialize ==
  /\ codecXml = NoFile
  /\ codecXml' = File(SerializeNfo(codecIn))
  /\ UNCHANGED << codecIn, codecOut >>

\* XMLParser.parse and normalizeNfoData
CodecParse ==
  /\ codecXml # NoFile
  /\ codecOut = Null
  /\ codecOut' = ParseNfo(codecXml.xml)
  /\ UNCHANGED << codecIn, codecXml >>

CodecInit ==
  /\ codecIn \in SampleRecords
  /\ codecXml = NoFile
  /\ codecOut = Null

CodecIdle ==
  /\ codecIn = createEmptyNfo
  /\ codecXml = NoFile
  /\ codecOut = Null

\* sidecar documents with up to MaxThumbs <thumb> elements: plain ones,
\* one with a numeric text, an empty one, and ones with an aspect attribute
MaxThumbs == 3
ThumbKinds ==
  { TextElem("a.jpg"), TextElem("7"), TextElem(""),
    AttrElem("aspect" :> "poster", "p.jpg"),
    AttrElem("aspect" :> "banner", "n.jpg") }
ThumbLists == UNION { [ 1..n -> ThumbKinds ] : n \in 0..MaxThumbs }
ThumbDoc(thumbs) ==
  MovieDoc(("title" :> << TextElem("A") >>)
           @@ (IF Len(thumbs) > 0 THEN "thumb" :> thumbs ELSE EmptyDoc))

ThumbInit ==
  /\ codecIn = createEmptyNfo
  /\ codecXml \in { File(ThumbDoc(thumbs)) : thumbs \in ThumbLists }
  /\ codecOut = Null

(***************************************************************************)
(* Lists of video files in the renderer: Array.prototype.sort (stable),    *)
(* String.prototype.localeCompare, groupVideos, and the DuplicateFinder's  *)
(* dupGroups and handleSmartSelect.  <<>> is the empty string and null.    *)
(***************************************************************************)
\* the place of item i in a stable ascending sort: the items ordered before
\* it, and the equal ones that stood before it
SortPlace(n, Less(_, _), i) ==
  1 + Cardinality({ j \in 1..n : Less(j, i) \/ (~Less(i, j) /\ j < i) })

\* arr.sort(comparator): Less(i, j) says the comparator puts arr[i] before arr[j]
StableSort(arr, Less(_, _)) ==
  [ p \in 1..Len(arr) |->
      arr[CHOOSE i \in 1..Len(arr) : SortPlace(Len(arr), Less, i) = p] ]

\* localeCompare, root collation, for the characters that occur: symbols
\* before digits before letters, letters first without regard to case, and
\* lower case before upper case when nothing else differs
CollationSymbols == <<" ", "_", "-", ":", ".", "/", "|">>
PrimaryWeight(c) ==
  IF \E i \in 1..Len(CollationSymbols) : CollationSymbols[i] = c
  THEN CHOOSE i \in 1..Len(CollationSymbols) : CollationSymbols[i] = c
  ELSE IF IsDigit(c) THEN 10 + DigitValue(c)
  ELSE 20 + (CHOOSE i \in 1..26 : LowerChars[i] = LowerChar(c))
TertiaryWeight(c) == IF c \in UpperSet THEN 1 ELSE 0

\* lexicographic order of two sequences of weights: -1, 0 or 1
RECURSIVE WeightCompare(_, _)
WeightCompare(a, b) ==
  IF Len(a) = 0 /\ Len(b) = 0 THEN 0
  ELSE IF Len(a) = 0 THEN -1
  ELSE IF Len(b) = 0 THEN 1
  ELSE IF a[1] < b[1] THEN -1
  ELSE IF a[1] > b[1] THEN 1
  ELSE WeightCompare(Tail(a), Tail(b))

localeCompare(a, b) ==
  LET p == WeightCompare([ i \in 1..Len(a) |-> PrimaryWeight(a[i]) ],
                         [ i \in 1..Len(b) |-> PrimaryWeight(b[i]) ])
  IN  IF p # 0 THEN p
      ELSE WeightCompare([ i \in 1..Len(a) |-> TertiaryWeight(a[i]) ],
                         [ i \in 1..Len(b) |-> TertiaryWeight(b[i]) ])

\* the distinct values of a sequence, in the order of their first occurrence
\* (the key order of a Map filled by a loop over the sequence)
FirstOccurrences(s) ==
  LET first == { i \in 1..Len(s) : \A j \in 1..(i - 1) : s[j] # s[i] }
  IN  [ p \in 1..Cardinality(first) |->
          s[CHOOSE i \in first : Cardinality({ j \in first : j <= i }) = p] ]

RECURSIVE SumSeq(_)
SumSeq(s) == IF Len(s) = 0 THEN 0 ELSE s[1] + SumSeq(Tail(s))

\* file.metadata?.field ?? dflt
HasMetadata(file) == "metadata" \in DOMAIN file /\ file.metadata # Undefined
MetaOr(file, field, dflt) == IF HasMetadata(file) THEN file.metadata[field] ELSE dflt

\* `${file.dirPath}|||${file.baseName}`
GroupKey(file) == file.dirPath \o <<"|", "|", "|">> \o file.baseName

\* a groupVideos that leaves the parts in the order of the list
MakeGroupUnsorted(key, files) ==
  LET parts == SelectSeq(files, LAMBDA f : GroupKey(f) = key)
      primary == parts[1]
      withNfo == SelectSeq(parts, LAMBDA p : p.nfoPath # <<>>)
  IN  [ key           |-> key,
        displayName   |-> primary.baseName,
        dirPath       |-> primary.dirPath,
        parts         |-> parts,
        totalSize     |-> SumSeq([ i \in 1..Len(parts) |-> parts[i].size ]),
        totalDuration |-> SumSeq([ i \in 1..Len(parts) |-> MetaOr(parts[i], "duration", 0) ]),
        partCount     |-> Len(parts),
        nfoPath       |-> IF Len(withNfo) > 0 THEN withNfo[1].nfoPath ELSE <<>>,
        metadata      |-> IF HasMetadata(primary) THEN primary.metadata ELSE Undefined,
        primaryPath   |-> primary.path,
        baseName      |-> primary.baseName ]

\* one VideoGroup of groupVideos (lines 71-89)
MakeGroup(key, files) ==
  LET list == SelectSeq(files, LAMBDA f : GroupKey(f) = key)
      parts == StableSort(list, LAMBDA i, j : list[i].cdIndex < list[j].cdIndex)
      primary == parts[1]
      withNfo == SelectSeq(parts, LAMBDA p : p.nfoPath # <<>>)
  IN  [ key           |-> key,
        displayName   |-> primary.baseName,
        dirPath       |-> primary.dirPath,
        parts         |-> parts,
        totalSize     |-> SumSeq([ i \in 1..Len(parts) |-> parts[i].size ]),
        totalDuration |-> SumSeq([ i \in 1..Len(parts) |-> MetaOr(parts[i], "duration", 0) ]),
        partCount     |-> Len(parts),
        nfoPath       |-> IF Len(withNfo) > 0 THEN withNfo[1].nfoPath ELSE <<>>,
        metadata      |-> IF HasMetadata(primary) THEN primary.metadata ELSE Undefined,
        primaryPath   |-> primary.path,
        baseName      |-> primary.baseName ]

\* groupVideos(files)
groupVideos(files) ==
  LET keys == FirstOccurrences([ i \in 1..Len(files) |-> GroupKey(files[i]) ])
      groups == [ k \in 1..Len(keys) |-> MakeGroup(keys[k], files) ]
  IN  StableSort(groups,
        LAMBDA i, j : localeCompare(groups[i].displayName, groups[j].displayName) < 0)

\* DuplicateFinder: CODEC_RANK, getCodecRank, getResolution
CODEC_RANK ==
  (<<"a","v","1">> :> 5) @@ (<<"h","e","v","c">> :> 4) @@ (<<"h","2","6","5">> :> 4)
  @@ (<<"v","p","9">> :> 3) @@ (<<"h","2","6","4">> :> 2)
  @@ (<<"m","p","e","g","4">> :> 1)
  @@ (<<"m","p","e","g","2","v","i","d","e","o">> :> 0)
  @@ (<<"m","p","e","g","1","v","i","d","e","o">> :> 0)

getCodecRank(codec) ==
  IF codec = <<>> THEN -1
  ELSE IF ToLowerCase(codec) \in DOMAIN CODEC_RANK THEN CODEC_RANK[ToLowerCase(codec)]
  ELSE 0

getResolution(file) == MetaOr(file, "width", 0) * MetaOr(file, "height", 0)

\* sortByQuality: resolution descending, then size descending
sortByQuality(arr) ==
  StableSort(arr,
    LAMBDA i, j : \/ getResolution(arr[i]) > getResolution(arr[j])
                  \/ /\ getResolution(arr[i]) = getResolution(arr[j])
                     /\ arr[i].size > arr[j].size)

\* String(n) of a natural number
RECURSIVE NumberToString(_)
NumberToString(n) ==
  IF n < 10 THEN << Digits[n + 1] >>
  ELSE Append(NumberToString(n \div 10), Digits[(n % 10) + 1])

\* `-cd${idx}`
CdSuffix(idx) == <<"-", "c", "d">> \o NumberToString(idx)

SeqMin(s) == CHOOSE x \in { s[i] : i \in 1..Len(s) } : \A i \in 1..Len(s) : x <= s[i]

\* lines 96-137 for one base-name group: every cluster the loop forms, before
\* the test that it has more than one member
\* (first, a loop that does not look at the part index at all)
BaseClustersIgnoringParts(baseFiles) ==
  << [ baseName |-> baseFiles[1].baseName, files |-> sortByQuality(baseFiles) ] >>

\* (and a loop that merges the files without a part index into the highest
\* part)
BaseClustersMergingIntoHighest(baseFiles) ==
  LET cdKeys == FirstOccurrences([ i \in 1..Len(baseFiles) |-> baseFiles[i].cdIndex ])
      cdFiles(idx) == SelectSeq(baseFiles, LAMBDA f : f.cdIndex = idx)
      cdIndices == SelectSeq(cdKeys, LAMBDA k : k > 0)
      noCdFiles == cdFiles(0)
      name == baseFiles[1].baseName
  IN  IF Len(cdIndices) > 0 /\ Len(noCdFiles) > 0
      THEN LET highestCd == CHOOSE x \in { cdIndices[i] : i \in 1..Len(cdIndices) } :
                               \A i \in 1..Len(cdIndices) : x >= cdIndices[i]
               others == SelectSeq(cdIndices, LAMBDA k : k # highestCd)
           IN  << [ baseName |-> name, files |-> sortByQuality(cdFiles(highestCd) \o noCdFiles) ] >>
               \o [ k \in 1..Len(others) |->
                      [ baseName |-> name \o CdSuffix(others[k]),
                        files    |-> sortByQuality(cdFiles(others[k])) ] ]
      ELSE [ k \in 1..Len(cdKeys) |->
               [ baseName |-> name \o (IF cdKeys[k] > 0 THEN CdSuffix(cdKeys[k]) ELSE <<>>),
                 files    |-> sortByQuality(cdFiles(cdKeys[k])) ] ]

BaseClusters(baseFiles) ==
  LET cdKeys == FirstOccurrences([ i \in 1..Len(baseFiles) |-> baseFiles[i].cdIndex ])
      cdFiles(idx) == SelectSeq(baseFiles, LAMBDA f : f.cdIndex = idx)
      cdIndices == SelectSeq(cdKeys, LAMBDA k : k > 0)
      noCdFiles == cdFiles(0)
      name == baseFiles[1].baseName
  IN  IF Len(cdIndices) > 0 /\ Len(noCdFiles) > 0
      THEN LET lowestCd == SeqMin(cdIndices)
               others == SelectSeq(cdIndices, LAMBDA k : k # lowestCd)
           IN  << [ baseName |-> name, files |-> sortByQuality(cdFiles(lowestCd) \o noCdFiles) ] >>
               \o [ k \in 1..Len(others) |->
                      [ baseName |-> name \o CdSuffix(others[k]),
                        files    |-> sortByQuality(cdFiles(others[k])) ] ]
      ELSE [ k \in 1..Len(cdKeys) |->
               [ baseName |-> name \o (IF cdKeys[k] > 0 THEN CdSuffix(cdKeys[k]) ELSE <<>>),
                 files    |-> sortByQuality(cdFiles(cdKeys[k])) ] ]

RECURSIVE Flatten(_)
Flatten(ss) == IF Len(ss) = 0 THEN << >> ELSE ss[1] \o Flatten(Tail(ss))

\* every cluster formed for the file list, reported or not
CandidateClusters(files) ==
  LET baseKeys == FirstOccurrences([ i \in 1..Len(files) |-> ToLowerCase(files[i].baseName) ])
      baseFiles(key) == SelectSeq(files, LAMBDA f : ToLowerCase(f.baseName) = key)
  IN  Flatten([ k \in 1..Len(baseKeys) |-> BaseClusters(baseFiles(baseKeys[k])) ])

\* dupGroups: the clusters with more than one member, sorted by name
\* (first, one that reports every cluster it forms)
dupGroupsOfAnySize(files) ==
  LET groups == CandidateClusters(files)
  IN  StableSort(groups,
        LAMBDA i, j : localeCompare(groups[i].baseName, groups[j].baseName) < 0)

dupGroups(files) ==
  LET groups == SelectSeq(CandidateClusters(files), LAMBDA g : Len(g.files) > 1)
  IN  StableSort(groups,
        LAMBDA i, j : localeCompare(groups[i].baseName, groups[j].baseName) < 0)

\* the test of handleSmartSelect that makes curr the best so far
\* (first, one that looks at the size whatever the strategy)
BeatsBestBySize(strategy, curr, best) == curr.size > best.size

BeatsBest(strategy, curr, best) ==
  IF strategy = "lowres"
  THEN \/ getResolution(curr) > getResolution(best)
       \/ getResolution(curr) = getResolution(best) /\ curr.size > best.size
  ELSE IF strategy = "oldcodec"
  THEN \/ getCodecRank(MetaOr(curr, "videoCodec", <<>>)) > getCodecRank(MetaOr(best, "videoCodec", <<>>))
       \/ /\ getCodecRank(MetaOr(curr, "videoCodec", <<>>)) = getCodecRank(MetaOr(best, "videoCodec", <<>>))
          /\ getResolution(curr) > getResolution(best)
  ELSE curr.size > best.size

\* the loop of lines 162-184 over group.files[1..n]
RECURSIVE BestIdx(_, _, _)
BestIdx(strategy, members, n) ==
  IF n = 1 THEN 1
  ELSE LET bestIdx == BestIdx(strategy, members, n - 1)
       IN  IF BeatsBest(strategy, members[n], members[bestIdx]) THEN n ELSE bestIdx

\* handleSmartSelect(strategy): the new selectedPaths
SmartSelection(strategy, groups) ==
  UNION { { groups[g].files[i].path :
              i \in (1..Len(groups[g].files)) \ { BestIdx(strategy, groups[g].files, Len(groups[g].files)) } } :
          g \in 1..Len(groups) }

(***************************************************************************)
(* The pure functions on their own: parseCdInfo applied to a file name,    *)
(* groupVideos applied to the file list, and the DuplicateFinder over the  *)
(* file list with its smart selection.                                     *)
(***************************************************************************)
VARIABLES
  cdName,         \* the file name handed to parseCdInfo
  cdResult,       \* Null or what parseCdInfo returned
  listFiles,      \* App state rawFiles, as groupVideos receives it
  videoGroups,    \* the memoized groupVideos(rawFiles)
  dupFiles,       \* the DuplicateFinder's files
  dupGroupsMemo,  \* its memoized dupGroups
  dupFormed,      \* every cluster the loop of dupGroups formed, reported or not
  dupStrategy,    \* "none" or the strategy of the last handleSmartSelect
  selectedPaths,  \* the DuplicateFinder's selectedPaths
  deleteCall,     \* handleDeleteSelected: [pc, paths, results]
  filesDeleted,   \* the arguments of the onFilesDeleted calls so far
  findEntries,    \* a listing: the Dirents readdir returned
  findVideo,      \* the name of a video file of that listing
  findResult      \* [done, nfoPath]: what findNfoFileFromCache returned for it

cdVars == << cdName, cdResult >>
findVars == << findEntries, findVideo, findResult >>
groupVars == << listFiles, videoGroups >>
dupVars == << dupFiles, dupGroupsMemo, dupFormed, dupStrategy, selectedPaths,
             deleteCall, filesDeleted >>

\* the pieces file names are put together from
CdStems == { <<>>, <<"a">>, <<"a", "-", "c", "d", "1">> }
CdSeps == { <<>>, <<"-">>, <<"_">>, <<" ">>, <<".">> }
CdWords == { <<>>, <<"c", "d">>, <<"C", "D">>, <<"D", "i", "s", "c">>, <<"d", "i", "s", "k">>, <<"p", "A", "r", "t">>, <<"c", "x">> }
CdNumbers == { <<>>, <<"1">>, <<"0", "2">>, <<"1", "2">> }
CdExts == { <<>>, <<".">>, <<".", "m", "k", "v">>, <<".", "p", "a", "r", "t", "2">> }
CdFileNames ==
  { n \o s \o k \o d \o e :
      n \in CdStems, s \in CdSeps, k \in CdWords, d \in CdNumbers, e \in CdExts }

\* scanDirectory line 268: parseCdInfo(entry.name)
ParseCdInfo ==
  /\ cdResult = Null
  /\ cdResult' = parseCdInfo(cdName)
  /\ UNCHANGED cdName

CdInit ==
  /\ cdName \in CdFileNames
  /\ cdResult = Null

CdIdle ==
  /\ cdName = <<>>
  /\ cdResult = Null

(***************************************************************************)
(* findNfoFileFromCache on its own: a listing with a video file and        *)
(* entries, files or directories, that bear the names of sidecars.         *)
(***************************************************************************)
FindDir == <<"/", "v">>
\* the video files looked up: a part, and a file named as its base name
FindVideos == { <<"m", "-", "c", "d", "1", ".", "m", "k", "v">>, <<"m", ".", "m", "k", "v">> }
\* the other names a listing may hold, in the order readdir reports them
FindNames ==
  << <<"M", ".", "N", "F", "O">>,
     <<"m", ".", "n", "f", "o">>,
     <<"m", "-", "c", "d", "1", ".", "n", "f", "o">>,
     <<"M", "o", "v", "i", "e", ".", "n", "f", "o">>,
     <<"m", "o", "v", "i", "e", ".", "n", "f", "o">> >>
EntryKinds == { "absent", "file", "directory" }

\* the Dirents of a listing that holds the video and, of FindNames, the
\* names whose kind is not absent
FindListing(video, kind) ==
  LET present == SelectSeq([ j \in 1..Len(FindNames) |-> j ], LAMBDA j : kind[j] # "absent")
  IN  << [ name |-> video, isDirectory |-> FALSE ] >>
      \o [ p \in 1..Len(present) |->
             [ name |-> FindNames[present[p]], isDirectory |-> kind[present[p]] = "directory" ] ]

NotLookedUp == [ done |-> FALSE, nfoPath |-> <<>> ]

\* scanDirectory lines 256-269 for one video entry of the listing
FindNfoFile ==
  /\ ~findResult.done
  /\ LET cd == parseCdInfo(findVideo)
     IN  findResult' =
           [ done    |-> TRUE,
             nfoPath |-> findNfoFileFromCache(FindDir, cd.baseName, findVideo,
                                              FileNamesInDir(findEntries)) ]
  /\ UNCHANGED << findEntries, findVideo >>

FindInit ==
  /\ findVideo \in FindVideos
  /\ \E kind \in [ 1..Len(FindNames) -> EntryKinds ] :
        findEntries = FindListing(findVideo, kind)
  /\ findResult = NotLookedUp

FindIdle ==
  /\ findEntries = << >>
  /\ findVideo = << >>
  /\ findResult = NotLookedUp

\* bounds: the longest file list handed to groupVideos, and to the
\* DuplicateFinder
MaxListFiles == 3
MaxDupFiles == 4
\* the most deleteFiles calls of one DuplicateFinder
MaxDeletes == 1

\* the sequences of at most n different members of S
DistinctSeqs(S, n) ==
  UNION { { q \in [1..k -> S] : \A i, j \in 1..k : q[i] = q[j] => i = j } : k \in 0..n }

\* a VideoFile as scanDirectory builds it from a listing, with the size
\* that the background size pass fills in
SampleFile(dir, name, namesInDir, size) ==
  [ MakeVideoFile(dir, name, { ToLowerCase(x) : x \in namesInDir }) EXCEPT !.size = size ]

\* VideoMetadata, as far as the renderer reads it
Meta(width, height, videoCodec) ==
  [ width |-> width, height |-> height, videoCodec |-> videoCodec, duration |-> 60 ]

\* the listings the sample files come from
ListDirA == <<"/", "m", "/", "a">>
ListDirAB == <<"/", "m", "/", "a", "|", "|", "|", "b">>
ListNamesA == { <<"c", "_", "c", "d", "1", ".", "m", "k", "v">>, <<"c", ".", "m", "k", "v">>, <<"c", "-", "c", "d", "1", ".", "m", "k", "v">>, <<"c", "-", "c", "d", "2", ".", "m", "k", "v">>, <<"C", "-", "c", "d", "1", ".", "m", "k", "v">>, <<"b", "|", "|", "|", "c", ".", "m", "k", "v">>, <<"c", "-", "c", "d", "1", ".", "n", "f", "o">>, <<"c", "-", "c", "d", "2", ".", "n", "f", "o">> }
ListNamesAB == { <<"c", ".", "m", "k", "v">> }

\* a movie in one file and in two parts with a sidecar each, a part whose
\* name differs in case, two files whose directory and base name put
\* together with "|||" read the same, and a second file for part 1
ListSamples ==
  { SampleFile(ListDirA, <<"c", ".", "m", "k", "v">>, ListNamesA, 1),
    SampleFile(ListDirA, <<"c", "-", "c", "d", "2", ".", "m", "k", "v">>, ListNamesA, 2),
    SampleFile(ListDirA, <<"c", "-", "c", "d", "1", ".", "m", "k", "v">>, ListNamesA, 4),
    SampleFile(ListDirA, <<"C", "-", "c", "d", "1", ".", "m", "k", "v">>, ListNamesA, 8),
    SampleFile(ListDirA, <<"b", "|", "|", "|", "c", ".", "m", "k", "v">>, ListNamesA, 16),
    SampleFile(ListDirAB, <<"c", ".", "m", "k", "v">>, ListNamesAB, 32),
    SampleFile(ListDirA, <<"c", "_", "c", "d", "1", ".", "m", "k", "v">>, ListNamesA, 64) }

\* setRawFiles(files) and the render after it, where useMemo recomputes
\* videoGroups (App.tsx line 115)
SetRawFiles(files) ==
  /\ listFiles' = files
  /\ videoGroups' = groupVideos(files)

GroupInit ==
  /\ listFiles = << >>
  /\ videoGroups = << >>

GroupIdle ==
  /\ listFiles = << >>
  /\ videoGroups = << >>

\* copies of one movie in two directories: whole, in parts, with names that
\* differ in case, with and without metadata
DupDirA == <<"/", "m", "/", "a">>
DupDirB == <<"/", "m", "/", "b">>
DupSample(dir, name, size, metadata) ==
  [ path |-> Join(dir, name), fileName |-> name, dirPath |-> dir, size |-> size,
    nfoPath |-> <<>>, baseName |-> parseCdInfo(name).baseName,
    cdIndex |-> parseCdInfo(name).cdIndex, metadata |-> metadata ]

DupSamples ==
  { DupSample(DupDirA, <<"m", ".", "m", "k", "v">>, 3, Meta(2, 2, <<"h", "2", "6", "4">>)),
    DupSample(DupDirB, <<"M", "-", "c", "d", "1", ".", "m", "k", "v">>, 2, Meta(2, 1, <<"h", "e", "v", "c">>)),
    DupSample(DupDirA, <<"m", "-", "c", "d", "1", ".", "a", "v", "i">>, 2, Undefined),
    DupSample(DupDirB, <<"m", "-", "c", "d", "2", ".", "m", "k", "v">>, 1, Meta(2, 2, <<"H", "E", "V", "C">>)),
    DupSample(DupDirA, <<"m", "-", "c", "d", "2", ".", "m", "k", "v">>, 5, Meta(2, 2, <<"a", "v", "1">>)),
    DupSample(DupDirB, <<"m", ".", "m", "k", "v">>, 3, Meta(2, 2, <<>>)) }

Strategies == { "lowres", "oldcodec", "smaller" }

\* the parent renders the DuplicateFinder with a new files prop, and
\* useMemo recomputes dupGroups (part_005 lines 76-142); dupFormed keeps
\* every cluster the loop formed
FilesChanged(files) ==
  /\ dupFiles' = files
  /\ dupGroupsMemo' = dupGroups(files)
  /\ dupFormed' = CandidateClusters(files)
  /\ dupStrategy' = "none"
  /\ UNCHANGED << selectedPaths, deleteCall, filesDeleted >>

\* handleSmartSelect(strategy)
HandleSmartSelect(strategy) ==
  /\ selectedPaths' = SmartSelection(strategy, dupGroupsMemo)
  /\ dupStrategy' = strategy
  /\ UNCHANGED << dupFiles, dupGroupsMemo, dupFormed, deleteCall, filesDeleted >>

\* handleClearSelection
HandleClearSelection ==
  /\ selectedPaths' = {}
  /\ dupStrategy' = "none"
  /\ UNCHANGED << dupFiles, dupGroupsMemo, dupFormed, deleteCall, filesDeleted >>

\* toggleFile(path): the check box of one listed file
ToggleFile(path) ==
  /\ selectedPaths' = IF path \in selectedPaths THEN selectedPaths \ {path}
                      ELSE selectedPaths \cup {path}
  /\ dupStrategy' = "none"
  /\ UNCHANGED << dupFiles, dupGroupsMemo, dupFormed, deleteCall, filesDeleted >>

\* the files the DuplicateFinder lists
ListedPaths ==
  UNION { { dupGroupsMemo[g].files[i].path : i \in 1..Len(dupGroupsMemo[g].files) } :
          g \in 1..Len(dupGroupsMemo) }

\* no deletion asked for yet
NoResults == [ p \in {} |-> TRUE ]
NoDeleteCall == [ pc |-> "idle", paths |-> {}, results |-> NoResults ]

\* handleDeleteSelected (lines 201-217): Modal.confirm is shown for the
\* paths selected now; nothing happens on an empty selection
HandleDeleteSelected ==
  /\ deleteCall.pc = "idle"
  /\ selectedPaths # {}
  /\ Len(filesDeleted) < MaxDeletes
  /\ deleteCall' = [ pc |-> "confirm", paths |-> selectedPaths, results |-> NoResults ]
  /\ UNCHANGED << dupFiles, dupGroupsMemo, dupFormed, dupStrategy, selectedPaths, filesDeleted >>

\* the dialog is dismissed
ConfirmCancel ==
  /\ deleteCall.pc = "confirm"
  /\ deleteCall' = NoDeleteCall
  /\ UNCHANGED << dupFiles, dupGroupsMemo, dupFormed, dupStrategy, selectedPaths, filesDeleted >>

\* onOk (line 221): window.api.deleteFiles(paths) is invoked
ConfirmOk ==
  /\ deleteCall.pc = "confirm"
  /\ deleteCall' = [ deleteCall EXCEPT !.pc = "deleting" ]
  /\ UNCHANGED << dupFiles, dupGroupsMemo, dupFormed, dupStrategy, selectedPaths, filesDeleted >>

\* results.filter((r) => r.success).map((r) => r.path)
DeletedOfAnyOutcome(results) == DOMAIN results
DeletedOf(results) == { p \in DOMAIN results : results[p] }

\* deleteFiles resolves with one outcome per path (lines 222-236)
DeleteFilesSettled(results) ==
  /\ deleteCall.pc = "deleting"
  /\ DOMAIN results = deleteCall.paths
  /\ LET deleted == DeletedOf(results)
     IN  IF deleted # {}
         THEN /\ filesDeleted' = Append(filesDeleted, deleted)
              /\ selectedPaths' = selectedPaths \ deleted
         ELSE UNCHANGED << filesDeleted, selectedPaths >>
  /\ deleteCall' = [ pc |-> "idle", paths |-> deleteCall.paths, results |-> results ]
  /\ UNCHANGED << dupFiles, dupGroupsMemo, dupFormed, dupStrategy >>

DupInit ==
  /\ dupFiles = << >>
  /\ dupGroupsMemo = << >>
  /\ dupFormed = << >>
  /\ dupStrategy = "none"
  /\ selectedPaths = {}
  /\ deleteCall = NoDeleteCall
  /\ filesDeleted = << >>

DupIdle ==
  /\ dupFiles = << >>
  /\ dupGroupsMemo = << >>
  /\ dupFormed = << >>
  /\ dupStrategy = "none"
  /\ selectedPaths = {}
  /\ deleteCall = NoDeleteCall
  /\ filesDeleted = << >>

(***************************************************************************)
(* Scan generations: the renderer's handleScan, the main process's        *)
(* 'scan-videos' handler and the events between them.  A handleScan call   *)
(* is known by the generation it took; origin fields record which call's   *)
(* scan emitted an event and are not on the wire.                          *)
(***************************************************************************)
VARIABLES
   scanGenRef,   \* scanGenRef.current
   genDirs,      \* settings.directories, as a set
   listeners,    \* ipcRenderer listeners: [found, complete], sets of generations
   calls,        \* handleScan calls: generation -> their locals and position
   invokes,      \* 'scan-videos' invocations the main process has not handled yet
   mainScans,    \* scans of the main process: generation -> [todo, done, files]
   ipc,          \* events sent to the renderer and not delivered yet, in order
   rawFiles,     \* App state rawFiles
   loading,      \* App state loading
   nfoMap,       \* App state nfoMap: group key -> the record read for it
   loadingStatus,    \* App state loadingStatus
   ffprobeAvailable, \* App state ffprobeAvailable
   scanCache,    \* what saveScanCache was last called with
   writeLog      \* every write to loading, rawFiles, nfoMap, loadingStatus and
                 \* every saveScanCache: which call made it, at which generation

genVars == << scanGenRef, genDirs, listeners, calls, invokes, mainScans, ipc,
              rawFiles, loading, nfoMap, loadingStatus, ffprobeAvailable,
              scanCache, writeLog >>

\* the directories that can be configured and the video file in each; the
\* list of directories may be empty
GenDirUniverse == { "d1", "d2" }
GenFileOf == ("d1" :> "d1/x.mkv") @@ ("d2" :> "d2/y.mkv")
GenDirOf == ("d1/x.mkv" :> "d1") @@ ("d2/y.mkv" :> "d2")
GenDirChoices == { {}, {"d1"}, {"d2"}, {"d1", "d2"} }

\* the VideoFile the scan sends for each of them: x.mkv has a sidecar
GenVideo ==
  ("d1/x.mkv" :> SampleFile(<<"d", "1">>, <<"x", ".", "m", "k", "v">>, { <<"x", ".", "m", "k", "v">>, <<"x", ".", "n", "f", "o">> }, 0))
  @@ ("d2/y.mkv" :> SampleFile(<<"d", "2">>, <<"y", ".", "m", "k", "v">>, { <<"y", ".", "m", "k", "v">> }, 0))

\* App.tsx BATCH_SIZE and NFO_BATCH
BATCH_SIZE == 30
NFO_BATCH == 50

NoListeners == [ found |-> {}, complete |-> {} ]
NewCall == [ pc |-> "waiting", collectedFiles |-> << >>, seenPaths |-> {},
             updateTimer |-> FALSE, pollInterval |-> TRUE,
             i |-> 0, groupsWithNfo |-> << >>, map |-> << >>, readFailed |-> {},
             endedBy |-> 0, stoppedAt |-> "" ]

\* the writes call L makes in this step
Wrote(L, whats) == { [ by |-> L, at |-> scanGenRef, what |-> w ] : w \in whats }

\* a handleScan without its tests of the generation
SupersededNever(L) == FALSE

\* scanGenRef.current !== gen
Superseded(L) == scanGenRef # L

\* handleScan lines 153-204, up to the await: take a generation, clear the
\* list, replace the listeners, invoke 'scan-videos', start polling
handleScan ==
  /\ scanGenRef < MaxGen
  /\ LET gen == scanGenRef + 1
     IN  /\ scanGenRef' = gen
         /\ listeners' = [ found |-> {gen}, complete |-> {gen} ]
         /\ calls' = (gen :> NewCall) @@ calls
         /\ invokes' = invokes \cup {gen}
         /\ writeLog' = writeLog \cup
              { [ by |-> gen, at |-> gen, what |-> w ] : w \in {"loading", "rawFiles", "nfoMap", "loadingStatus"} }
  /\ loading' = TRUE
  /\ rawFiles' = << >>
  /\ nfoMap' = << >>
  /\ loadingStatus' = ""
  /\ UNCHANGED << ffprobeAvailable, scanCache >>

\* the Scan button: it does not react while loading
HandleScanClick ==
  /\ ~loading
  /\ handleScan
  /\ UNCHANGED << genDirs, mainScans, ipc >>

\* handleSettingsSave(dirsChanged = true): the directories were changed in
\* the settings panel, and a scan is started
HandleSettingsSave(dirs) ==
  /\ dirs # genDirs
  /\ genDirs' = dirs
  /\ handleScan
  /\ UNCHANGED << mainScans, ipc >>

\* ipcMain.handle('scan-videos') starts: getSettings() and scanDirectories
MainScanStart(g) ==
  /\ g \in invokes
  /\ invokes' = invokes \ {g}
  /\ mainScans' = (g :> [ todo  |-> { GenFileOf[d] : d \in genDirs },
                          done  |-> FALSE,
                          files |-> { GenFileOf[d] : d \in genDirs } ]) @@ mainScans
  /\ UNCHANGED << scanGenRef, genDirs, listeners, calls, ipc, rawFiles, loading,
                  nfoMap, loadingStatus, ffprobeAvailable, scanCache, writeLog >>

\* onFound of the scan: sender.send('video-found', file)
MainEmit(g, f) ==
  /\ g \in DOMAIN mainScans
  /\ f \in mainScans[g].todo
  /\ mainScans' = [ mainScans EXCEPT ![g].todo = @ \ {f} ]
  /\ ipc' = Append(ipc, [ ch |-> "video-found", path |-> f, origin |-> g ])
  /\ UNCHANGED << scanGenRef, genDirs, listeners, calls, invokes, rawFiles, loading,
                  nfoMap, loadingStatus, ffprobeAvailable, scanCache, writeLog >>

\* scanDirectories returned: sender.send('scan-complete')
MainComplete(g) ==
  /\ g \in DOMAIN mainScans
  /\ mainScans[g].todo = {}
  /\ ~mainScans[g].done
  /\ mainScans' = [ mainScans EXCEPT ![g].done = TRUE ]
  /\ ipc' = Append(ipc, [ ch |-> "scan-complete", path |-> "", origin |-> g ])
  /\ UNCHANGED << scanGenRef, genDirs, listeners, calls, invokes, rawFiles, loading,
                  nfoMap, loadingStatus, ffprobeAvailable, scanCache, writeLog >>

\* the listener of call L for 'video-found' (lines 170-183)
OnVideoFound(L, msg) ==
  IF scanGenRef # L \/ msg.path \in calls[L].seenPaths
  THEN UNCHANGED calls
  ELSE calls' = [ calls EXCEPT ![L].seenPaths = @ \cup {msg.path},
                               ![L].collectedFiles =
                                   Append(@, [ path |-> msg.path, origin |-> msg.origin,
                                               metadata |-> FALSE ]),
                               ![L].updateTimer = TRUE ]

\* call L returns at a test of the generation
Return(cs, L) == [ cs EXCEPT ![L].stoppedAt = cs[L].pc, ![L].pc = "superseded" ]

\* the groups of a file list that have a sidecar (lines 252-255)
GroupsWithNfoOf(files) == SelectSeq(groupVideos(files), LAMBDA g : g.nfoPath # <<>>)
GroupsWithNfo(collectedFiles) ==
  GroupsWithNfoOf([ k \in 1..Len(collectedFiles) |-> GenVideo[collectedFiles[k].path] ])

\* lines 270-275: the map is shown, the status cleared, the cache saved
Finish(L, cs, map, log) ==
  /\ calls' = [ cs EXCEPT ![L].pc = "done", ![L].map = map ]
  /\ nfoMap' = map
  /\ loadingStatus' = ""
  /\ scanCache' = cs[L].collectedFiles
  /\ writeLog' = log \cup Wrote(L, {"nfoMap", "loadingStatus", "saveScanCache"})

\* lines 248-258 with the generation unchanged: the status becomes 'nfo' and
\* the first batch of readNfo calls is awaited, or there is none to read
EnterNfo(L, cs, log) ==
  LET groupsWithNfo == GroupsWithNfo(cs[L].collectedFiles)
  IN
  IF Len(groupsWithNfo) = 0
  THEN Finish(L, cs, << >>, log \cup Wrote(L, {"loadingStatus"}))
  ELSE /\ calls' = [ cs EXCEPT ![L].pc = "nfo", ![L].i = 0, ![L].map = << >>,
                               ![L].groupsWithNfo = groupsWithNfo ]
       /\ loadingStatus' = "nfo"
       /\ writeLog' = log \cup Wrote(L, {"loadingStatus"})
       /\ UNCHANGED << nfoMap, scanCache >>

\* lines 207-229 after the await of call L, which the completion event of
\* scan `by` ended (0: the poll ended it): drop the listener and the timer,
\* and unless the call was superseded show the collected files and go on
\* to the metadata
AfterWait(L, cs, by) ==
  LET ended == [ cs EXCEPT ![L].updateTimer = FALSE, ![L].pollInterval = FALSE,
                           ![L].endedBy = by ]
  IN  IF Superseded(L)
      THEN /\ calls' = Return(ended, L)
           /\ UNCHANGED << rawFiles, loading, nfoMap, loadingStatus, scanCache, writeLog >>
      ELSE /\ rawFiles' = cs[L].collectedFiles
           /\ loading' = FALSE
           /\ IF Len(cs[L].collectedFiles) = 0
              THEN /\ calls' = [ ended EXCEPT ![L].pc = "done" ]
                   /\ writeLog' = writeLog \cup Wrote(L, {"rawFiles", "loading"})
                   /\ UNCHANGED << nfoMap, loadingStatus, scanCache >>
              ELSE IF ffprobeAvailable
              THEN /\ calls' = [ ended EXCEPT ![L].pc = "metadata", ![L].i = 0 ]
                   /\ loadingStatus' = "metadata"
                   /\ writeLog' = writeLog \cup Wrote(L, {"rawFiles", "loading", "loadingStatus"})
                   /\ UNCHANGED << nfoMap, scanCache >>
              ELSE EnterNfo(L, [ ended EXCEPT ![L].pc = "nfo" ],
                            writeLog \cup Wrote(L, {"rawFiles", "loading"}))

\* the renderer receives the oldest event
Deliver ==
  /\ Len(ipc) > 0
  /\ ipc' = Tail(ipc)
  /\ LET msg == Head(ipc)
     IN  IF msg.ch = "video-found"
         THEN /\ IF listeners.found = {}
                 THEN UNCHANGED calls
                 ELSE OnVideoFound(CHOOSE L \in listeners.found : TRUE, msg)
              /\ UNCHANGED << listeners, rawFiles, loading, nfoMap, loadingStatus,
                              scanCache, writeLog >>
         ELSE IF listeners.complete = {}
              THEN UNCHANGED << listeners, calls, rawFiles, loading, nfoMap,
                                loadingStatus, scanCache, writeLog >>
              ELSE LET L == CHOOSE x \in listeners.complete : TRUE
                   IN  /\ listeners' = [ found |-> listeners.found \ {L},
                                         complete |-> listeners.complete \ {L} ]
                       /\ AfterWait(L, calls, msg.origin)
  /\ UNCHANGED << scanGenRef, genDirs, invokes, mainScans, ffprobeAvailable >>

\* the 200 ms timer of call L fires (lines 177-181)
UpdateTimerFires(L) ==
  /\ L \in DOMAIN calls
  /\ calls[L].updateTimer
  /\ calls' = [ calls EXCEPT ![L].updateTimer = FALSE ]
  /\ rawFiles' = IF Superseded(L) THEN rawFiles ELSE calls[L].collectedFiles
  /\ writeLog' = IF Superseded(L) THEN writeLog ELSE writeLog \cup Wrote(L, {"rawFiles"})
  /\ UNCHANGED << scanGenRef, genDirs, listeners, invokes, mainScans, ipc, loading,
                  nfoMap, loadingStatus, ffprobeAvailable, scanCache >>

\* the 200 ms poll of call L finds the generation changed (lines 196-203)
PollFiresWhileListening(L) ==
  /\ L \in DOMAIN calls
  /\ calls[L].pollInterval
  /\ scanGenRef # L
  /\ L \in listeners.complete
  /\ listeners' = [ found |-> listeners.found \ {L}, complete |-> listeners.complete \ {L} ]
  /\ AfterWait(L, calls, 0)
  /\ UNCHANGED << scanGenRef, genDirs, invokes, mainScans, ipc, ffprobeAvailable >>
PollFires(L) ==
  /\ L \in DOMAIN calls
  /\ calls[L].pollInterval
  /\ scanGenRef # L
  /\ listeners' = [ found |-> listeners.found \ {L}, complete |-> listeners.complete \ {L} ]
  /\ AfterWait(L, calls, 0)
  /\ UNCHANGED << scanGenRef, genDirs, invokes, mainScans, ipc, ffprobeAvailable >>

\* lines 230-248: the getVideoMetadata calls of one batch have settled, all
\* with a result or all without
MetadataSettled(L, ok) ==
  /\ L \in DOMAIN calls
  /\ calls[L].pc = "metadata"
  /\ IF Superseded(L)
     THEN /\ calls' = Return(calls, L)
          /\ UNCHANGED << rawFiles, nfoMap, loadingStatus, scanCache, writeLog >>
     ELSE LET i == calls[L].i
              cf == calls[L].collectedFiles
              batch == (i + 1)..Min(i + BATCH_SIZE, Len(cf))
              cf2 == [ k \in 1..Len(cf) |->
                         IF k \in batch /\ ok THEN [ cf[k] EXCEPT !.metadata = TRUE ] ELSE cf[k] ]
              cs == [ calls EXCEPT ![L].collectedFiles = cf2, ![L].i = i + BATCH_SIZE ]
              log == writeLog \cup Wrote(L, {"rawFiles"})
          IN  /\ rawFiles' = cf2
              /\ IF i + BATCH_SIZE < Len(cf)
                 THEN /\ calls' = cs
                      /\ writeLog' = log
                      /\ UNCHANGED << nfoMap, loadingStatus, scanCache >>
                 ELSE EnterNfo(L, [ cs EXCEPT ![L].pc = "nfo" ], log)
  /\ UNCHANGED << scanGenRef, genDirs, listeners, invokes, mainScans, ipc, loading,
                  ffprobeAvailable >>

\* what 'read-nfo' resolves with when readNfo(nfoPath) succeeds: the record
\* made of that file
ReadRecord(nfoPath) == [ readFrom |-> nfoPath ]

\* batch[idx], batch = groupsWithNfo.slice(i, i + NFO_BATCH), idx from 1
BatchGroupOfWholeList(groups, i, idx) == groups[idx]
BatchGroup(groups, i, idx) == groups[i + idx]

\* the positions of the batch that starts after i
BatchPositions(groups, i) == 1..(Min(i + NFO_BATCH, Len(groups)) - i)

\* results.forEach (lines 264-268): the entries set for the reads that gave
\* a record; a later position overwrites an earlier one with the same key
MapAfterBatch(map, groups, i, read) ==
  LET keys == { BatchGroup(groups, i, idx).key : idx \in read }
      last(key) == CHOOSE idx \in read :
                     /\ BatchGroup(groups, i, idx).key = key
                     /\ \A other \in read :
                           BatchGroup(groups, i, other).key = key => other <= idx
  IN  [ key \in keys |-> ReadRecord(BatchGroup(groups, i, last(key)).nfoPath) ] @@ map

\* lines 259-275: the readNfo calls of one batch have settled; `read` holds
\* the positions of the batch whose call resolved with a record, the others
\* resolved with null ('read-nfo' caught an error) or rejected
NfoSettled(L, read) ==
  /\ L \in DOMAIN calls
  /\ calls[L].pc = "nfo"
  /\ IF Superseded(L)
     THEN /\ calls' = Return(calls, L)
          /\ UNCHANGED << nfoMap, loadingStatus, scanCache, writeLog >>
     ELSE LET i == calls[L].i
              groups == calls[L].groupsWithNfo
              batch == BatchPositions(groups, i)
              map == MapAfterBatch(calls[L].map, groups, i, read \cap batch)
              failed == calls[L].readFailed \cup { groups[i + idx].nfoPath : idx \in batch \ read }
              cs == [ calls EXCEPT ![L].map = map, ![L].readFailed = failed ]
          IN  IF i + NFO_BATCH < Len(groups)
              THEN /\ calls' = [ cs EXCEPT ![L].i = i + NFO_BATCH ]
                   /\ UNCHANGED << nfoMap, loadingStatus, scanCache, writeLog >>
              ELSE Finish(L, cs, map, writeLog)
  /\ UNCHANGED << scanGenRef, genDirs, listeners, invokes, mainScans, ipc, rawFiles,
                  loading, ffprobeAvailable >>

\* the subsets of S with at most n elements
RECURSIVE SubsetsUpTo(_, _)
SubsetsUpTo(S, n) ==
  IF n = 0 THEN { {} }
  ELSE LET smaller == SubsetsUpTo(S, n - 1)
       IN  smaller \cup { f \cup {x} : f \in smaller, x \in S }

\* the outcomes of the reads of the batch call L awaits: at most
\* MaxReadFailures of them give no record
ReadOutcomes(L) ==
  IF calls[L].pc # "nfo" THEN { {} }
  ELSE LET batch == BatchPositions(calls[L].groupsWithNfo, calls[L].i)
       IN  { batch \ failing : failing \in SubsetsUpTo(batch, MaxReadFailures) }

GenInit ==
  /\ scanGenRef = 0
  /\ genDirs \in GenDirChoices
  /\ listeners = NoListeners
  /\ calls = << >>
  /\ invokes = {}
  /\ mainScans = << >>
  /\ ipc = << >>
  /\ rawFiles = << >>
  /\ loading = FALSE
  /\ nfoMap = << >>
  /\ loadingStatus = ""
  /\ ffprobeAvailable \in BOOLEAN
  /\ scanCache = << >>
  /\ writeLog = {}

GenIdle ==
  /\ scanGenRef = 0
  /\ genDirs = {}
  /\ listeners = NoListeners
  /\ calls = << >>
  /\ invokes = {}
  /\ mainScans = << >>
  /\ ipc = << >>
  /\ rawFiles = << >>
  /\ loading = FALSE
  /\ nfoMap = << >>
  /\ loadingStatus = ""
  /\ ffprobeAvailable = TRUE
  /\ scanCache = << >>
  /\ writeLog = {}

(***************************************************************************)
(* The fan-out of a scan over wide directories.  The scanDirectory calls   *)
(* of the roots are frames: n is the number of subdirectories of the       *)
(* root's directory, i the loop variable of its batches; in a deep tree    *)
(* every subdirectory has one subdirectory of its own, without any below.  *)
(* The calls for the subdirectories are counted by the await they are at:  *)
(* kStat at stat, kReaddir at readdir, kWait at the allSettled of their    *)
(* own batch, whose one call is at its stat or readdir; started and        *)
(* settled count the calls for subdirectories begun and resolved so far.   *)
(* Calls at the same point are interchangeable, so the frames are kept as  *)
(* a bag.                                                                  *)
(***************************************************************************)
VARIABLES
  treeRoots,    \* the roots: [n, deep], the subdirectories of each
  dirScans,     \* the bag of the frames of the roots' scanDirectory calls
  scanRunning   \* a scanDirectories call has not returned yet

fanVars == << treeRoots, dirScans, scanRunning >>

\* one wide root, with one batch, a batch and one more, two batches and one
\* more; two wide roots; and more roots than DIR_PARALLEL
Flat(n) == [ n |-> n, deep |-> FALSE ]
Deep(n) == [ n |-> n, deep |-> TRUE ]
FanTrees ==
  { << Flat(0) >>, << Deep(1) >>, << Deep(DIR_PARALLEL) >>, << Deep(DIR_PARALLEL + 1) >>,
    << Deep(2 * DIR_PARALLEL + 1) >>,
    << Flat(DIR_PARALLEL), Flat(DIR_PARALLEL) >>,
    [ j \in 1..(DIR_PARALLEL + 1) |-> Flat(0) ] }

\* scanDirectory is called and runs up to its await stat
NewDirScan(root) ==
  [ pc |-> "stat", n |-> root.n, deep |-> root.deep, i |-> 0,
    kStat |-> 0, kReaddir |-> 0, kWait |-> 0, started |-> 0, settled |-> 0 ]

\* the frame f of the bag becomes g
Becomes(f, g) == dirScans' = (dirScans (-) SetToBag({f})) (+) SetToBag({g})

\* subdirs.slice(i, i + DIR_PARALLEL).length
BatchLengthOfRest(n, i) == n - i
BatchLength(n, i) == Min(i + DIR_PARALLEL, n) - i

\* the loops of lines 240-247 and 289-296 from their start: the first batch
\* of calls is made and awaited, or there is no subdirectory
FanRecurse(f) ==
  IF f.n > 0
  THEN [ f EXCEPT !.pc = "wait", !.i = 0, !.kStat = BatchLength(f.n, 0),
                  !.started = BatchLength(f.n, 0) ]
  ELSE [ f EXCEPT !.pc = "done" ]

\* scanDirectories lines 312-322: one scanDirectory call per root
FanScanDirectories ==
  /\ ~scanRunning
  /\ dirScans' = SeqToBag([ j \in 1..Len(treeRoots) |-> NewDirScan(treeRoots[j]) ])
  /\ scanRunning' = TRUE
  /\ UNCHANGED treeRoots

\* await stat of a root returns: it rejects, or the cache entry is current
\* (lines 231-249), or it is not (251-253)
RootStatDone(f, outcome) ==
  /\ scanRunning
  /\ f.pc = "stat"
  /\ Becomes(f, IF outcome = "rejected" THEN [ f EXCEPT !.pc = "done" ]
                ELSE IF outcome = "hit" THEN FanRecurse(f)
                ELSE [ f EXCEPT !.pc = "readdir" ])
  /\ UNCHANGED << treeRoots, scanRunning >>

\* await readdir of a root returns (lines 253-296)
RootReaddirDone(f, ok) ==
  /\ scanRunning
  /\ f.pc = "readdir"
  /\ Becomes(f, IF ok THEN FanRecurse(f) ELSE [ f EXCEPT !.pc = "done" ])
  /\ UNCHANGED << treeRoots, scanRunning >>

\* a subdirectory's call reaches its loop over its own subdirectories: it
\* awaits its batch of one, or it has none and resolves
ChildRecurse(f) ==
  IF f.deep THEN [ f EXCEPT !.kWait = @ + 1 ] ELSE [ f EXCEPT !.settled = @ + 1 ]

\* await stat of a subdirectory's call returns: rejected, the call
\* resolves; on a cache hit it goes to its loop, else on to readdir
ChildStatDone(f, outcome) ==
  /\ scanRunning
  /\ f.kStat > 0
  /\ LET g == [ f EXCEPT !.kStat = @ - 1 ]
     IN  Becomes(f, IF outcome = "rejected" THEN [ g EXCEPT !.settled = @ + 1 ]
                    ELSE IF outcome = "hit" THEN ChildRecurse(g)
                    ELSE [ g EXCEPT !.kReaddir = @ + 1 ])
  /\ UNCHANGED << treeRoots, scanRunning >>

\* await readdir of a subdirectory's call returns: rejected, the call
\* resolves; else it goes to its loop
ChildReaddirDone(f, ok) ==
  /\ scanRunning
  /\ f.kReaddir > 0
  /\ LET g == [ f EXCEPT !.kReaddir = @ - 1 ]
     IN  Becomes(f, IF ok THEN ChildRecurse(g) ELSE [ g EXCEPT !.settled = @ + 1 ])
  /\ UNCHANGED << treeRoots, scanRunning >>

\* the batch of a subdirectory's call settles, and the call resolves
ChildBatchSettled(f) ==
  /\ scanRunning
  /\ f.kWait > 0
  /\ Becomes(f, [ f EXCEPT !.kWait = @ - 1, !.settled = @ + 1 ])
  /\ UNCHANGED << treeRoots, scanRunning >>

\* Promise.allSettled(batch) resolves when every call of the batch has
AllSettledOnFirst(f) == f.settled > f.i
AllSettled(f) == f.settled = f.started

\* await Promise.allSettled(batch) returns: the next batch, or the end
FanBatchSettled(f) ==
  /\ scanRunning
  /\ f.pc = "wait"
  /\ AllSettled(f)
  /\ LET i2 == f.i + DIR_PARALLEL
     IN  Becomes(f, IF i2 < f.n
                    THEN [ f EXCEPT !.i = i2, !.kStat = @ + BatchLength(f.n, i2),
                                    !.started = @ + BatchLength(f.n, i2) ]
                    ELSE [ f EXCEPT !.pc = "done" ])
  /\ UNCHANGED << treeRoots, scanRunning >>

\* scanDirectories lines 322-335: every root's call has settled
FanScanSettled ==
  /\ scanRunning
  /\ \A f \in BagToSet(dirScans) : f.pc = "done"
  /\ scanRunning' = FALSE
  /\ dirScans' = EmptyBag
  /\ UNCHANGED treeRoots

FanInit ==
  /\ treeRoots \in FanTrees
  /\ dirScans = EmptyBag
  /\ scanRunning = FALSE

FanIdle ==
  /\ treeRoots = << >>
  /\ dirScans = EmptyBag
  /\ scanRunning = FALSE

(***************************************************************************)
(* One directory, changed by other programs while scanDirectory calls of   *)
(* one scan or of two overlapping scans work on it with one DirCache.      *)
(* Every change of the entries gives the directory the next mtime, and a   *)
(* listing is named by the mtime the directory had when it was read.  A    *)
(* stat and a readdir read the directory at some moment between their      *)
(* call and their return.                                                  *)
(***************************************************************************)
VARIABLES
  dirNow,       \* the directory's mtime, which names its entries too
  dirEntry,     \* dirCache.get(dir): NoEntry or [mtime, listing]
  dirCalls      \* the scanDirectory calls on the directory, by caller

raceVars == << dirNow, dirEntry, dirCalls >>

MaxChanges == 2
MaxCalls == 2
Callers == 1..2

NoEntry == [ mtime |-> -1, listing |-> -1 ]
NoReplay == [ mtime |-> -1, listing |-> -1 ]
NoCall ==
  [ pc |-> "none", runs |-> 0, dirMtime |-> -1, listing |-> -1, replayed |-> NoReplay ]

\* scanDirectory is called and runs up to its await stat (line 227)
RaceScanDirectory(c) ==
  /\ dirCalls[c].pc \in {"none", "done"}
  /\ dirCalls[c].runs < MaxCalls
  /\ dirCalls' = [ dirCalls EXCEPT ![c] =
                     [ NoCall EXCEPT !.pc = "stat", !.runs = dirCalls[c].runs + 1 ] ]
  /\ UNCHANGED << dirNow, dirEntry >>

\* the stat reads the directory
RaceStatReads(c) ==
  /\ dirCalls[c].pc = "stat"
  /\ dirCalls' = [ dirCalls EXCEPT ![c].pc = "statted", ![c].dirMtime = dirNow ]
  /\ UNCHANGED << dirNow, dirEntry >>

\* cached && cached.mtime === dirMtime (line 231)
RaceIsCacheHit(cached, dirMtime) == cached # NoEntry /\ cached.mtime = dirMtime

\* await stat returns (lines 227-253): the cached list is replayed, or
\* readdir is called
RaceStatDone(c) ==
  /\ dirCalls[c].pc = "statted"
  /\ IF RaceIsCacheHit(dirEntry, dirCalls[c].dirMtime)
     THEN dirCalls' = [ dirCalls EXCEPT ![c].pc = "done",
                                        ![c].replayed = [ mtime |-> dirCalls[c].dirMtime,
                                                          listing |-> dirEntry.listing ] ]
     ELSE dirCalls' = [ dirCalls EXCEPT ![c].pc = "readdir" ]
  /\ UNCHANGED << dirNow, dirEntry >>

\* the readdir reads the directory
RaceReaddirReads(c) ==
  /\ dirCalls[c].pc = "readdir"
  /\ dirCalls' = [ dirCalls EXCEPT ![c].pc = "listed", ![c].listing = dirNow ]
  /\ UNCHANGED << dirNow, dirEntry >>

\* the entry written: the mtime is the one stat gave (line 286)
EntryWithMtimeNow(frame, now) == [ mtime |-> now, listing |-> frame.listing ]
RaceCacheEntry(frame, now) == [ mtime |-> frame.dirMtime, listing |-> frame.listing ]

\* await readdir returns (lines 253-296): dirCache.set
RaceReaddirDone(c) ==
  /\ dirCalls[c].pc = "listed"
  /\ dirEntry' = RaceCacheEntry(dirCalls[c], dirNow)
  /\ dirCalls' = [ dirCalls EXCEPT ![c].pc = "done" ]
  /\ UNCHANGED dirNow

\* await stat or await readdir rejects: the catch (lines 297-299)
RaceCatch(c) ==
  /\ dirCalls[c].pc \in {"stat", "readdir"}
  /\ dirCalls' = [ dirCalls EXCEPT ![c].pc = "done" ]
  /\ UNCHANGED << dirNow, dirEntry >>

\* another program adds or removes an entry
RaceEnvChange ==
  /\ dirNow < MaxChanges
  /\ dirNow' = dirNow + 1
  /\ UNCHANGED << dirEntry, dirCalls >>

RaceInit ==
  /\ dirNow = 0
  /\ dirEntry = NoEntry
  /\ dirCalls = [ c \in Callers |-> NoCall ]

RaceIdle ==
  /\ dirNow = 0
  /\ dirEntry = NoEntry
  /\ dirCalls = << >>

(***************************************************************************)
(* The start of the renderer: the effect that runs once on mount asks for  *)
(* the snapshot saveScanCache left in an earlier session, shows it and     *)
(* reads its sidecars in batches, while the user may start scans.  Its     *)
(* writes are logged in writeLog as made by call 0.                        *)
(***************************************************************************)
VARIABLES
  startup       \* the effect: [pc, files, i, groupsWithNfo, map]

startVars == << startup >>

NoStartup == [ pc |-> "done", files |-> << >>, i |-> 0, groupsWithNfo |-> << >>, map |-> << >> ]

\* the snapshots an earlier session can have left: its scan found x.mkv,
\* which has a sidecar, or y.mkv, which has none
SnapshotFile(path) == [ path |-> path, origin |-> 0, metadata |-> FALSE ]
StartSnapshots == { << SnapshotFile("d1/x.mkv") >>, << SnapshotFile("d2/y.mkv") >> }

\* lines 299-300 of the effect: setNfoMap(map)
StartupFinish(map, log) ==
  /\ startup' = [ startup EXCEPT !.pc = "done", !.map = map ]
  /\ nfoMap' = map
  /\ writeLog' = log \cup Wrote(0, {"nfoMap"})

\* loadScanCache() resolved (lines 280-293): a snapshot that is not empty
\* is shown, and the first batch of readNfo calls is awaited if a group
\* has a sidecar
LoadScanCacheResolved ==
  /\ startup.pc = "load"
  /\ IF Len(startup.files) > 0
     THEN LET groupsWithNfo == GroupsWithNfo(startup.files)
              log == writeLog \cup Wrote(0, {"rawFiles"})
          IN  /\ rawFiles' = startup.files
              /\ IF Len(groupsWithNfo) = 0
                 THEN StartupFinish(<< >>, log)
                 ELSE /\ startup' = [ startup EXCEPT !.pc = "nfo", !.i = 0,
                                                      !.groupsWithNfo = groupsWithNfo ]
                      /\ writeLog' = log
                      /\ UNCHANGED nfoMap
     ELSE /\ startup' = [ startup EXCEPT !.pc = "done" ]
          /\ UNCHANGED << rawFiles, nfoMap, writeLog >>
  /\ UNCHANGED << scanGenRef, genDirs, listeners, calls, invokes, mainScans, ipc,
                  loading, loadingStatus, ffprobeAvailable, scanCache >>

\* the outcomes of the reads of the batch the effect awaits
StartupReadOutcomes ==
  IF startup.pc # "nfo" THEN { {} }
  ELSE LET batch == BatchPositions(startup.groupsWithNfo, startup.i)
       IN  { batch \ failing : failing \in SubsetsUpTo(batch, MaxReadFailures) }

\* lines 291-300: the readNfo calls of one batch of the effect have settled
StartupNfoSettled(read) ==
  /\ startup.pc = "nfo"
  /\ LET i == startup.i
         groups == startup.groupsWithNfo
         batch == BatchPositions(groups, i)
         map == MapAfterBatch(startup.map, groups, i, read \cap batch)
     IN  IF i + NFO_BATCH < Len(groups)
         THEN /\ startup' = [ startup EXCEPT !.i = i + NFO_BATCH, !.map = map ]
              /\ UNCHANGED << nfoMap, writeLog >>
         ELSE StartupFinish(map, writeLog)
  /\ UNCHANGED << scanGenRef, genDirs, listeners, calls, invokes, mainScans, ipc,
                  rawFiles, loading, loadingStatus, ffprobeAvailable, scanCache >>

\* the renderer has mounted; ffprobe was found
StartInit ==
  /\ GenInit
  /\ ffprobeAvailable
  /\ startup \in { [ NoStartup EXCEPT !.pc = "load", !.files = files ] :
                       files \in StartSnapshots \cup { << >> } }

StartIdle == startup = NoStartup

(***************************************************************************)
(* 'Delete folder' on a group of the video list: the context menu's        *)
(* handleDelete, the 'delete-folder' handler of the main process and the   *)
(* parent's onDeleteGroup.  removedDirs records what rm has removed.       *)
(***************************************************************************)
VARIABLES
  folderCall,   \* handleDelete: [pc, group]
  removedDirs   \* the directories rm(folderPath, { recursive: true }) removed

folderVars == << folderCall, removedDirs >>

NoFolderCall == [ pc |-> "idle", group |-> << >> ]

\* two movies in one directory, one in a directory below it, and one
\* elsewhere
FolderDirA == <<"/", "m", "/", "a">>
FolderDirAS == <<"/", "m", "/", "a", "/", "s">>
FolderDirB == <<"/", "m", "/", "b">>
FolderNameC == <<"c", ".", "m", "k", "v">>
FolderNameD == <<"d", ".", "m", "k", "v">>
FolderNameE == <<"e", ".", "m", "k", "v">>
FolderFiles ==
  << SampleFile(FolderDirA, FolderNameC, { FolderNameC, FolderNameD }, 1),
     SampleFile(FolderDirA, FolderNameD, { FolderNameC, FolderNameD }, 1),
     SampleFile(FolderDirAS, FolderNameE, { FolderNameE }, 1),
     SampleFile(FolderDirB, FolderNameC, { FolderNameC }, 1) >>
\* the lists a scan can have shown: any of these files, in this order
FolderLists ==
  { SelectSeq(FolderFiles, LAMBDA f : f.path \in S) :
      S \in SUBSET { FolderFiles[i].path : i \in 1..Len(FolderFiles) } }

\* handleDelete (VideoList.tsx 298-310): the dialog is shown for the group
\* of the context menu
HandleDelete(g) ==
  /\ folderCall.pc = "idle"
  /\ g \in 1..Len(videoGroups)
  /\ folderCall' = [ pc |-> "confirm", group |-> videoGroups[g] ]
  /\ UNCHANGED << removedDirs, listFiles, videoGroups >>

\* the dialog is dismissed
FolderConfirmCancel ==
  /\ folderCall.pc = "confirm"
  /\ folderCall' = NoFolderCall
  /\ UNCHANGED << removedDirs, listFiles, videoGroups >>

\* onOk (line 311): window.api.deleteFolder(group.dirPath) is invoked
FolderConfirmOk ==
  /\ folderCall.pc = "confirm"
  /\ folderCall' = [ folderCall EXCEPT !.pc = "deleting" ]
  /\ UNCHANGED << removedDirs, listFiles, videoGroups >>

\* onDeleteGroup (App.tsx 459-469): the parts of the group with this key
\* leave rawFiles
OnDeleteGroup(groupKey) ==
  LET found == SelectSeq(videoGroups, LAMBDA g : g.key = groupKey)
  IN  IF Len(found) = 0
      THEN UNCHANGED << listFiles, videoGroups >>
      ELSE LET pathsToRemove == { found[1].parts[i].path : i \in 1..Len(found[1].parts) }
           IN  SetRawFiles(SelectSeq(listFiles, LAMBDA f : f.path \notin pathsToRemove))

\* 'delete-folder' (index.ts 159-166) resolved, and lines 312-317 of onOk
DeleteFolderSettled(success) ==
  /\ folderCall.pc = "deleting"
  /\ folderCall' = NoFolderCall
  /\ IF success
     THEN /\ removedDirs' = removedDirs \cup { folderCall.group.dirPath }
          /\ OnDeleteGroup(folderCall.group.key)
     ELSE UNCHANGED << removedDirs, listFiles, videoGroups >>

FolderInit ==
  /\ listFiles \in FolderLists
  /\ videoGroups = groupVideos(listFiles)
  /\ folderCall = NoFolderCall
  /\ removedDirs = {}

FolderIdle ==
  /\ folderCall = NoFolderCall
  /\ removedDirs = {}

(***************************************************************************)
(* The first save of a sidecar: a directory has been scanned and none of   *)
(* its videos has a sidecar; the user saves the record of one group, and   *)
(* the directory is scanned again.                                         *)
(***************************************************************************)
VARIABLES
  sidecarNames, \* the names of the files in the directory
  firstSave     \* handleSaveNfo: [pc, group, nfoPath]

sidecarVars == << sidecarNames, firstSave >>

NoFirstSave == [ pc |-> "idle", group |-> << >>, nfoPath |-> << >> ]

SidecarDir == <<"/", "m", "/", "a">>
\* a movie in one file, a movie in two parts, a lone part, and two parts
\* whose names begin with the separator
SidecarVideos ==
  << <<"x", ".", "m", "k", "v">>,
     <<"y", "-", "c", "d", "1", ".", "m", "k", "v">>,
     <<"y", "-", "c", "d", "2", ".", "m", "k", "v">>,
     <<"z", "-", "c", "d", "1", ".", "m", "k", "v">>,
     <<"-", "c", "d", "1", ".", "m", "k", "v">>,
     <<"-", "c", "d", "2", ".", "m", "k", "v">> >>

\* what a scan reports for the directory: one VideoFile per video of
\* SidecarVideos that is in it, as scanDirectory builds them
SidecarListing(names) ==
  LET videos == SelectSeq(SidecarVideos, LAMBDA v : v \in names)
      lower == { ToLowerCase(x) : x \in names }
  IN  [ j \in 1..Len(videos) |->
          [ MakeVideoFile(SidecarDir, videos[j], lower) EXCEPT !.size = 1 ] ]

\* 'get-nfo-path' (index.ts 103-107); an absent useBaseName is << >>
getNfoPath(videoPath, useBaseName) ==
  LET dir == ParentDir(videoPath)
      file == LastName(videoPath)
      name == IF useBaseName # << >> THEN useBaseName
              ELSE BaseNameNoExt(file, ExtName(file))
  IN  Join(dir, name \o NfoExt)

\* handleSaveNfo (App.tsx 328-364) for a group without sidecar; saveNfo
\* writes the file or reports a failure
HandleSaveNfoFirst(g, success) ==
  /\ firstSave.pc = "idle"
  /\ g \in 1..Len(videoGroups)
  /\ videoGroups[g].nfoPath = << >>
  /\ LET selectedGroup == videoGroups[g]
         nfoPath == getNfoPath(selectedGroup.primaryPath,
                               IF selectedGroup.partCount > 1
                               THEN selectedGroup.baseName ELSE << >>)
     IN  IF success
         THEN /\ sidecarNames' = sidecarNames \cup { LastName(nfoPath) }
              /\ SetRawFiles([ i \in 1..Len(listFiles) |->
                     IF /\ listFiles[i].baseName = selectedGroup.baseName
                        /\ listFiles[i].dirPath = selectedGroup.dirPath
                     THEN [ listFiles[i] EXCEPT !.nfoPath = nfoPath ]
                     ELSE listFiles[i] ])
              /\ firstSave' = [ pc |-> "saved", group |-> selectedGroup, nfoPath |-> nfoPath ]
         ELSE /\ firstSave' = [ pc |-> "failed", group |-> selectedGroup, nfoPath |-> nfoPath ]
              /\ UNCHANGED << sidecarNames, listFiles, videoGroups >>

\* the directory, whose mtime the new file changed, is listed again by the
\* next scan (scanner.ts 253-283) and the list is replaced
SidecarRescan ==
  /\ firstSave.pc = "saved"
  /\ SetRawFiles(SidecarListing(sidecarNames))
  /\ firstSave' = [ firstSave EXCEPT !.pc = "rescanned" ]
  /\ UNCHANGED sidecarNames

SidecarInit ==
  /\ sidecarNames \in SUBSET { SidecarVideos[j] : j \in 1..Len(SidecarVideos) }
  /\ listFiles = SidecarListing(sidecarNames)
  /\ videoGroups = groupVideos(listFiles)
  /\ firstSave = NoFirstSave

SidecarIdle ==
  /\ sidecarNames = {}
  /\ firstSave = NoFirstSave

(***************************************************************************)
(* The specifications.  Each one runs one part of the program and holds    *)
(* the other parts still.                                                  *)
(***************************************************************************)
vars == << scanVars, nfoVars, codecVars, genVars, cdVars, groupVars, dupVars, findVars,
          fanVars, raceVars, startVars, folderVars, sidecarVars >>

\* the scanner is not in use
ScanIdle ==
  /\ platform = "linux"
  /\ settingsDirs = << >>
  /\ fs = InitFs
  /\ clock = 0
  /\ envSteps = 0
  /\ failSteps = 0
  /\ driveMapCache = [ built |-> FALSE, map |-> NoDriveMap ]
  /\ dirCache = << >>
  /\ tasks = << >>
  /\ timings = ZeroTimings
  /\ scanActive = FALSE
  /\ lastStats = ZeroTimings
  /\ cur = NoRun
  /\ prev = NoRun
  /\ chgBetween = {}
  /\ createdBetween = {}

\* scanDirectories over a DirCache that lives as long as the process, with
\* other programs changing directories between scans and directories
\* becoming unreadable at any time
ScanNext ==
  \/ ScanDirectories /\ UNCHANGED << nfoVars, codecVars, genVars, cdVars, groupVars, dupVars, findVars, fanVars, raceVars, startVars, folderVars, sidecarVars >>
  \/ \E t \in DOMAIN tasks : StatDone(t) /\ UNCHANGED << nfoVars, codecVars, genVars, cdVars, groupVars, dupVars, findVars, fanVars, raceVars, startVars, folderVars, sidecarVars >>
  \/ \E t \in DOMAIN tasks : ReaddirDone(t) /\ UNCHANGED << nfoVars, codecVars, genVars, cdVars, groupVars, dupVars, findVars, fanVars, raceVars, startVars, folderVars, sidecarVars >>
  \/ \E t \in DOMAIN tasks : BatchSettled(t) /\ UNCHANGED << nfoVars, codecVars, genVars, cdVars, groupVars, dupVars, findVars, fanVars, raceVars, startVars, folderVars, sidecarVars >>
  \/ ScanSettled /\ UNCHANGED << nfoVars, codecVars, genVars, cdVars, groupVars, dupVars, findVars, fanVars, raceVars, startVars, folderVars, sidecarVars >>
  \/ ~scanActive /\ EnvFsStep /\ UNCHANGED << nfoVars, codecVars, genVars, cdVars, groupVars, dupVars, findVars, fanVars, raceVars, startVars, folderVars, sidecarVars >>
  \/ EnvFailStep /\ UNCHANGED << nfoVars, codecVars, genVars, cdVars, groupVars, dupVars, findVars, fanVars, raceVars, startVars, folderVars, sidecarVars >>

\* a tree whose directory a holds a movie in two parts with one sidecar
PartsFs ==
  [ d \in DirUniverse |->
      [ exists |-> d # UncAC,
        mtime  |-> 0,
        files  |-> IF d = UncA THEN { PartOne, PartTwo, PartsNfo }
                   ELSE IF d = UncB THEN { FileMovie }
                   ELSE {},
        fail   |-> "none" ] ]
PartsRoots == { << Unc >>, << UncA >>, << Unc, UncA >> }

PartsInit ==
  /\ platform \in {"win32", "linux"}
  /\ settingsDirs \in PartsRoots
  /\ fs = PartsFs
  /\ clock = 0
  /\ envSteps = 0
  /\ failSteps = 0
  /\ driveMapCache = [ built |-> FALSE, map |-> NoDriveMap ]
  /\ dirCache = << >>
  /\ tasks = << >>
  /\ timings = ZeroTimings
  /\ scanActive = FALSE
  /\ lastStats = ZeroTimings
  /\ cur = NoRun
  /\ prev = NoRun
  /\ chgBetween = {}
  /\ createdBetween = {}

ScanSpecInit == ScanInit /\ NfoIdle /\ CodecIdle /\ GenIdle /\ CdIdle /\ GroupIdle /\ DupIdle /\ FindIdle /\ FanIdle /\ RaceIdle /\ StartIdle /\ FolderIdle /\ SidecarIdle
ScanSpec == ScanSpecInit /\ [][ScanNext]_vars

\* the scanner over the tree with the movie in parts
PartsSpecInit == PartsInit /\ NfoIdle /\ CodecIdle /\ GenIdle /\ CdIdle /\ GroupIdle /\ DupIdle /\ FindIdle /\ FanIdle /\ RaceIdle /\ StartIdle /\ FolderIdle /\ SidecarIdle
PartsSpec == PartsSpecInit /\ [][ScanNext]_vars

\* the metadata editor: select, edit and save, with the backup copy and the
\* write failing or not, and other programs rewriting the sidecar
NfoNext ==
  \/ HandleSelectGroup /\ UNCHANGED << scanVars, codecVars, genVars, cdVars, groupVars, dupVars, findVars, fanVars, raceVars, startVars, folderVars, sidecarVars >>
  \/ nfoData # Null
     /\ \E title \in EditTitles \cup {nfoData.title} :
           HandleSave(title) /\ UNCHANGED << scanVars, codecVars, genVars, cdVars, groupVars, dupVars, findVars, fanVars, raceVars, startVars, folderVars, sidecarVars >>
  \/ \E copyOk \in BOOLEAN : SaveBackup(copyOk) /\ UNCHANGED << scanVars, codecVars, genVars, cdVars, groupVars, dupVars, findVars, fanVars, raceVars, startVars, folderVars, sidecarVars >>
  \/ \E writeOk \in BOOLEAN : SaveWrite(writeOk) /\ UNCHANGED << scanVars, codecVars, genVars, cdVars, groupVars, dupVars, findVars, fanVars, raceVars, startVars, folderVars, sidecarVars >>
  \/ \E doc \in SampleDocs : ExternalWrite(doc) /\ UNCHANGED << scanVars, codecVars, genVars, cdVars, groupVars, dupVars, findVars, fanVars, raceVars, startVars, folderVars, sidecarVars >>

NfoSpecInit == NfoInit /\ ScanIdle /\ CodecIdle /\ GenIdle /\ CdIdle /\ GroupIdle /\ DupIdle /\ FindIdle /\ FanIdle /\ RaceIdle /\ StartIdle /\ FolderIdle /\ SidecarIdle
NfoSpec == NfoSpecInit /\ [][NfoNext]_vars

\* the codec applied to a record
CodecNext ==
  \/ CodecSerialize /\ UNCHANGED << scanVars, nfoVars, genVars, cdVars, groupVars, dupVars, findVars, fanVars, raceVars, startVars, folderVars, sidecarVars >>
  \/ CodecParse /\ UNCHANGED << scanVars, nfoVars, genVars, cdVars, groupVars, dupVars, findVars, fanVars, raceVars, startVars, folderVars, sidecarVars >>

CodecSpecInit == CodecInit /\ ScanIdle /\ NfoIdle /\ GenIdle /\ CdIdle /\ GroupIdle /\ DupIdle /\ FindIdle /\ FanIdle /\ RaceIdle /\ StartIdle /\ FolderIdle /\ SidecarIdle
CodecSpec == CodecSpecInit /\ [][CodecNext]_vars

\* readNfo applied to documents with thumbnail entries
ThumbNext ==
  \/ CodecParse /\ UNCHANGED << scanVars, nfoVars, genVars, cdVars, groupVars, dupVars, findVars, fanVars, raceVars, startVars, folderVars, sidecarVars >>

ThumbSpecInit == ThumbInit /\ ScanIdle /\ NfoIdle /\ GenIdle /\ CdIdle /\ GroupIdle /\ DupIdle /\ FindIdle /\ FanIdle /\ RaceIdle /\ StartIdle /\ FolderIdle /\ SidecarIdle
ThumbSpec == ThumbSpecInit /\ [][ThumbNext]_vars

\* scans started from the renderer while earlier ones are still running
GenNext ==
  \/ HandleScanClick /\ UNCHANGED << scanVars, nfoVars, codecVars, cdVars, groupVars, dupVars, findVars, fanVars, raceVars, startVars, folderVars, sidecarVars >>
  \/ \E dirs \in GenDirChoices : HandleSettingsSave(dirs) /\ UNCHANGED << scanVars, nfoVars, codecVars, cdVars, groupVars, dupVars, findVars, fanVars, raceVars, startVars, folderVars, sidecarVars >>
  \/ \E g \in invokes : MainScanStart(g) /\ UNCHANGED << scanVars, nfoVars, codecVars, cdVars, groupVars, dupVars, findVars, fanVars, raceVars, startVars, folderVars, sidecarVars >>
  \/ \E g \in DOMAIN mainScans, f \in DOMAIN GenDirOf :
        MainEmit(g, f) /\ UNCHANGED << scanVars, nfoVars, codecVars, cdVars, groupVars, dupVars, findVars, fanVars, raceVars, startVars, folderVars, sidecarVars >>
  \/ \E g \in DOMAIN mainScans : MainComplete(g) /\ UNCHANGED << scanVars, nfoVars, codecVars, cdVars, groupVars, dupVars, findVars, fanVars, raceVars, startVars, folderVars, sidecarVars >>
  \/ Deliver /\ UNCHANGED << scanVars, nfoVars, codecVars, cdVars, groupVars, dupVars, findVars, fanVars, raceVars, startVars, folderVars, sidecarVars >>
  \/ \E L \in DOMAIN calls : UpdateTimerFires(L) /\ UNCHANGED << scanVars, nfoVars, codecVars, cdVars, groupVars, dupVars, findVars, fanVars, raceVars, startVars, folderVars, sidecarVars >>
  \/ \E L \in DOMAIN calls : PollFires(L) /\ UNCHANGED << scanVars, nfoVars, codecVars, cdVars, groupVars, dupVars, findVars, fanVars, raceVars, startVars, folderVars, sidecarVars >>
  \/ \E L \in DOMAIN calls, ok \in BOOLEAN :
        MetadataSettled(L, ok) /\ UNCHANGED << scanVars, nfoVars, codecVars, cdVars, groupVars, dupVars, findVars, fanVars, raceVars, startVars, folderVars, sidecarVars >>
  \/ \E L \in DOMAIN calls : \E read \in ReadOutcomes(L) :
        NfoSettled(L, read) /\ UNCHANGED << scanVars, nfoVars, codecVars, cdVars, groupVars, dupVars, findVars, fanVars, raceVars, startVars, folderVars, sidecarVars >>

GenSpecInit == GenInit /\ ScanIdle /\ NfoIdle /\ CodecIdle /\ CdIdle /\ GroupIdle /\ DupIdle /\ FindIdle /\ FanIdle /\ RaceIdle /\ StartIdle /\ FolderIdle /\ SidecarIdle
GenSpec == GenSpecInit /\ [][GenNext]_vars

\* the same scans, with what the event loops of the two processes give:
\* an invocation is handled, a running scan emits and completes, an event
\* sent is delivered, an interval fires again and again, and the promises
\* of a batch settle
GenRestUnchanged ==
  UNCHANGED << scanVars, nfoVars, codecVars, cdVars, groupVars, dupVars, findVars, fanVars, raceVars, startVars, folderVars, sidecarVars >>
\* weak fairness of Deliver and of MetadataSettled, with the condition
\* under which the action is enabled written out: an event is waiting, the
\* call awaits a batch of getVideoMetadata
DeliverFair ==
  \/ []<>(Len(ipc) = 0)
  \/ []<><< Deliver /\ GenRestUnchanged >>_vars
MetadataFair(g) ==
  \/ []<>~(g \in DOMAIN calls /\ calls[g].pc = "metadata")
  \/ []<><< \E ok \in BOOLEAN : MetadataSettled(g, ok) /\ GenRestUnchanged >>_vars
GenFairness ==
  /\ DeliverFair
  /\ \A g \in 1..MaxGen :
        /\ WF_vars(MainScanStart(g) /\ GenRestUnchanged)
        /\ WF_vars(\E f \in DOMAIN GenDirOf : MainEmit(g, f) /\ GenRestUnchanged)
        /\ WF_vars(MainComplete(g) /\ GenRestUnchanged)
        /\ WF_vars(PollFires(g) /\ GenRestUnchanged)
        /\ MetadataFair(g)
        /\ WF_vars(g \in DOMAIN calls /\ \E read \in ReadOutcomes(g) :
                                           NfoSettled(g, read) /\ GenRestUnchanged)
GenLiveSpec == GenSpecInit /\ [][GenNext]_vars /\ GenFairness

\* the sidecars of a large library are loaded: a scan of one directory has
\* delivered files 1.mkv, 2.mkv, ..., every one but each tenth with a
\* sidecar, and handleScan has reached the loop that reads them, in batches
LoadDir == <<"l">>
LoadName(k) == NumberToString(k) \o <<".", "m", "k", "v">>
LoadNfo(k) == NumberToString(k) \o <<".", "n", "f", "o">>
LoadVideo(k) ==
  SampleFile(LoadDir, LoadName(k),
             IF k % 10 = 0 THEN { LoadName(k) } ELSE { LoadName(k), LoadNfo(k) }, 0)
LoadPath(k) == "l/" \o ToString(k)
LoadSizes == { 3, 57 }
LoadCollected(n) == [ k \in 1..n |-> [ path |-> LoadPath(k), origin |-> 1, metadata |-> FALSE ] ]

LoadInit ==
  \E n \in LoadSizes :
    /\ scanGenRef = 1
    /\ genDirs = {"d1"}
    /\ listeners = NoListeners
    /\ calls = ( 1 :> [ NewCall EXCEPT
                          !.pc = "nfo",
                          !.collectedFiles = LoadCollected(n),
                          !.seenPaths = { LoadPath(k) : k \in 1..n },
                          !.pollInterval = FALSE,
                          !.endedBy = 1,
                          !.groupsWithNfo = GroupsWithNfoOf([ k \in 1..n |-> LoadVideo(k) ]) ] )
    /\ invokes = {}
    /\ mainScans = ( 1 :> [ todo |-> {}, done |-> TRUE, files |-> { LoadPath(k) : k \in 1..n } ] )
    /\ ipc = << >>
    /\ rawFiles = LoadCollected(n)
    /\ loading = FALSE
    /\ nfoMap = << >>
    /\ loadingStatus = "nfo"
    /\ ffprobeAvailable = FALSE
    /\ scanCache = << >>
    /\ writeLog = { [ by |-> 1, at |-> 1, what |-> w ] :
                       w \in {"loading", "rawFiles", "nfoMap", "loadingStatus"} }

\* the batches settle; the user may start another scan meanwhile
LoadNext ==
  \/ \E L \in DOMAIN calls : \E read \in ReadOutcomes(L) :
        NfoSettled(L, read) /\ UNCHANGED << scanVars, nfoVars, codecVars, cdVars, groupVars, dupVars, findVars, fanVars, raceVars, startVars, folderVars, sidecarVars >>
  \/ HandleScanClick /\ UNCHANGED << scanVars, nfoVars, codecVars, cdVars, groupVars, dupVars, findVars, fanVars, raceVars, startVars, folderVars, sidecarVars >>

LoadSpecInit == LoadInit /\ ScanIdle /\ NfoIdle /\ CodecIdle /\ CdIdle /\ GroupIdle /\ DupIdle /\ FindIdle /\ FanIdle /\ RaceIdle /\ StartIdle /\ FolderIdle /\ SidecarIdle
LoadSpec == LoadSpecInit /\ [][LoadNext]_vars

\* the renderer from its start: the effect that loads the snapshot, and the
\* scans the user starts meanwhile
StartNext ==
  \/ GenNext
  \/ LoadScanCacheResolved /\ UNCHANGED << scanVars, nfoVars, codecVars, cdVars, groupVars, dupVars, findVars, fanVars, raceVars, folderVars, sidecarVars >>
  \/ \E read \in StartupReadOutcomes :
        StartupNfoSettled(read) /\ UNCHANGED << scanVars, nfoVars, codecVars, cdVars, groupVars, dupVars, findVars, fanVars, raceVars, folderVars, sidecarVars >>

StartSpecInit == StartInit /\ ScanIdle /\ NfoIdle /\ CodecIdle /\ CdIdle /\ GroupIdle /\ DupIdle /\ FindIdle /\ FanIdle /\ RaceIdle /\ FolderIdle /\ SidecarIdle
StartSpec == StartSpecInit /\ [][StartNext]_vars

\* folders deleted from the video list
FolderNext ==
  \/ \E g \in 1..Len(videoGroups) : HandleDelete(g) /\ UNCHANGED << scanVars, nfoVars, codecVars, genVars, cdVars, dupVars, findVars, fanVars, raceVars, startVars, sidecarVars >>
  \/ FolderConfirmCancel /\ UNCHANGED << scanVars, nfoVars, codecVars, genVars, cdVars, dupVars, findVars, fanVars, raceVars, startVars, sidecarVars >>
  \/ FolderConfirmOk /\ UNCHANGED << scanVars, nfoVars, codecVars, genVars, cdVars, dupVars, findVars, fanVars, raceVars, startVars, sidecarVars >>
  \/ \E success \in BOOLEAN : DeleteFolderSettled(success) /\ UNCHANGED << scanVars, nfoVars, codecVars, genVars, cdVars, dupVars, findVars, fanVars, raceVars, startVars, sidecarVars >>

FolderSpecInit == FolderInit /\ ScanIdle /\ NfoIdle /\ CodecIdle /\ GenIdle /\ CdIdle /\ DupIdle /\ FindIdle /\ FanIdle /\ RaceIdle /\ StartIdle /\ SidecarIdle
FolderSpec == FolderSpecInit /\ [][FolderNext]_vars

\* first saves of sidecars
SidecarNext ==
  \/ \E g \in 1..Len(videoGroups), success \in BOOLEAN :
        HandleSaveNfoFirst(g, success) /\ UNCHANGED << scanVars, nfoVars, codecVars, genVars, cdVars, dupVars, findVars, fanVars, raceVars, startVars, folderVars >>
  \/ SidecarRescan /\ UNCHANGED << scanVars, nfoVars, codecVars, genVars, cdVars, dupVars, findVars, fanVars, raceVars, startVars, folderVars >>

SidecarSpecInit == SidecarInit /\ ScanIdle /\ NfoIdle /\ CodecIdle /\ GenIdle /\ CdIdle /\ DupIdle /\ FindIdle /\ FanIdle /\ RaceIdle /\ StartIdle /\ FolderIdle
SidecarSpec == SidecarSpecInit /\ [][SidecarNext]_vars

\* scans of wide directories and of many roots
FanNext ==
  \/ FanScanDirectories /\ UNCHANGED << scanVars, nfoVars, codecVars, genVars, cdVars, groupVars, dupVars, findVars, raceVars, startVars, folderVars, sidecarVars >>
  \/ \E f \in BagToSet(dirScans), outcome \in {"rejected", "hit", "miss"} :
        RootStatDone(f, outcome) /\ UNCHANGED << scanVars, nfoVars, codecVars, genVars, cdVars, groupVars, dupVars, findVars, raceVars, startVars, folderVars, sidecarVars >>
  \/ \E f \in BagToSet(dirScans), ok \in BOOLEAN :
        RootReaddirDone(f, ok) /\ UNCHANGED << scanVars, nfoVars, codecVars, genVars, cdVars, groupVars, dupVars, findVars, raceVars, startVars, folderVars, sidecarVars >>
  \/ \E f \in BagToSet(dirScans), outcome \in {"rejected", "hit", "miss"} :
        ChildStatDone(f, outcome) /\ UNCHANGED << scanVars, nfoVars, codecVars, genVars, cdVars, groupVars, dupVars, findVars, raceVars, startVars, folderVars, sidecarVars >>
  \/ \E f \in BagToSet(dirScans), ok \in BOOLEAN :
        ChildReaddirDone(f, ok) /\ UNCHANGED << scanVars, nfoVars, codecVars, genVars, cdVars, groupVars, dupVars, findVars, raceVars, startVars, folderVars, sidecarVars >>
  \/ \E f \in BagToSet(dirScans) :
        ChildBatchSettled(f) /\ UNCHANGED << scanVars, nfoVars, codecVars, genVars, cdVars, groupVars, dupVars, findVars, raceVars, startVars, folderVars, sidecarVars >>
  \/ \E f \in BagToSet(dirScans) :
        FanBatchSettled(f) /\ UNCHANGED << scanVars, nfoVars, codecVars, genVars, cdVars, groupVars, dupVars, findVars, raceVars, startVars, folderVars, sidecarVars >>
  \/ FanScanSettled /\ UNCHANGED << scanVars, nfoVars, codecVars, genVars, cdVars, groupVars, dupVars, findVars, raceVars, startVars, folderVars, sidecarVars >>

FanSpecInit == FanInit /\ ScanIdle /\ NfoIdle /\ CodecIdle /\ GenIdle /\ CdIdle /\ GroupIdle /\ DupIdle /\ FindIdle /\ RaceIdle /\ StartIdle /\ FolderIdle /\ SidecarIdle
FanSpec == FanSpecInit /\ [][FanNext]_vars

\* a directory changing under scanDirectory calls that share its cache entry
RaceNext ==
  \/ \E c \in Callers : RaceScanDirectory(c) /\ UNCHANGED << scanVars, nfoVars, codecVars, genVars, cdVars, groupVars, dupVars, findVars, fanVars, startVars, folderVars, sidecarVars >>
  \/ \E c \in Callers : RaceStatReads(c) /\ UNCHANGED << scanVars, nfoVars, codecVars, genVars, cdVars, groupVars, dupVars, findVars, fanVars, startVars, folderVars, sidecarVars >>
  \/ \E c \in Callers : RaceStatDone(c) /\ UNCHANGED << scanVars, nfoVars, codecVars, genVars, cdVars, groupVars, dupVars, findVars, fanVars, startVars, folderVars, sidecarVars >>
  \/ \E c \in Callers : RaceReaddirReads(c) /\ UNCHANGED << scanVars, nfoVars, codecVars, genVars, cdVars, groupVars, dupVars, findVars, fanVars, startVars, folderVars, sidecarVars >>
  \/ \E c \in Callers : RaceReaddirDone(c) /\ UNCHANGED << scanVars, nfoVars, codecVars, genVars, cdVars, groupVars, dupVars, findVars, fanVars, startVars, folderVars, sidecarVars >>
  \/ \E c \in Callers : RaceCatch(c) /\ UNCHANGED << scanVars, nfoVars, codecVars, genVars, cdVars, groupVars, dupVars, findVars, fanVars, startVars, folderVars, sidecarVars >>
  \/ RaceEnvChange /\ UNCHANGED << scanVars, nfoVars, codecVars, genVars, cdVars, groupVars, dupVars, findVars, fanVars, startVars, folderVars, sidecarVars >>

RaceSpecInit == RaceInit /\ ScanIdle /\ NfoIdle /\ CodecIdle /\ GenIdle /\ CdIdle /\ GroupIdle /\ DupIdle /\ FindIdle /\ FanIdle /\ StartIdle /\ FolderIdle /\ SidecarIdle
RaceSpec == RaceSpecInit /\ [][RaceNext]_vars

\* findNfoFileFromCache applied to a video of a listing
FindNext ==
  \/ FindNfoFile /\ UNCHANGED << scanVars, nfoVars, codecVars, genVars, cdVars, groupVars, dupVars, fanVars, raceVars, startVars, folderVars, sidecarVars >>

FindSpecInit == FindInit /\ ScanIdle /\ NfoIdle /\ CodecIdle /\ GenIdle /\ CdIdle /\ GroupIdle /\ DupIdle /\ FanIdle /\ RaceIdle /\ StartIdle /\ FolderIdle /\ SidecarIdle
FindSpec == FindSpecInit /\ [][FindNext]_vars

\* parseCdInfo applied to a file name
CdNext ==
  \/ ParseCdInfo /\ UNCHANGED << scanVars, nfoVars, codecVars, genVars, groupVars, dupVars, findVars, fanVars, raceVars, startVars, folderVars, sidecarVars >>

CdSpecInit == CdInit /\ ScanIdle /\ NfoIdle /\ CodecIdle /\ GenIdle /\ GroupIdle /\ DupIdle /\ FindIdle /\ FanIdle /\ RaceIdle /\ StartIdle /\ FolderIdle /\ SidecarIdle
CdSpec == CdSpecInit /\ [][CdNext]_vars

\* the list of files grows as a scan finds them and is cleared when the next
\* scan starts; the groups follow it
GroupNext ==
  \/ \E file \in ListSamples :
        /\ Len(listFiles) < MaxListFiles
        /\ \A i \in 1..Len(listFiles) : listFiles[i].path # file.path
        /\ SetRawFiles(Append(listFiles, file))
        /\ UNCHANGED << scanVars, nfoVars, codecVars, genVars, cdVars, dupVars, findVars, fanVars, raceVars, startVars, folderVars, sidecarVars >>
  \/ SetRawFiles(<< >>) /\ UNCHANGED << scanVars, nfoVars, codecVars, genVars, cdVars, dupVars, findVars, fanVars, raceVars, startVars, folderVars, sidecarVars >>

GroupSpecInit == GroupInit /\ ScanIdle /\ NfoIdle /\ CodecIdle /\ GenIdle /\ CdIdle /\ DupIdle /\ FindIdle /\ FanIdle /\ RaceIdle /\ StartIdle /\ FolderIdle /\ SidecarIdle
GroupSpec == GroupSpecInit /\ [][GroupNext]_vars

\* the DuplicateFinder while the list of files grows
DupNext ==
  \/ \E file \in DupSamples :
        /\ Len(dupFiles) < MaxDupFiles
        /\ \A i \in 1..Len(dupFiles) : dupFiles[i].path # file.path
        /\ FilesChanged(Append(dupFiles, file))
        /\ UNCHANGED << scanVars, nfoVars, codecVars, genVars, cdVars, groupVars, findVars, fanVars, raceVars, startVars, folderVars, sidecarVars >>
  \/ \E strategy \in Strategies :
        HandleSmartSelect(strategy) /\ UNCHANGED << scanVars, nfoVars, codecVars, genVars, cdVars, groupVars, findVars, fanVars, raceVars, startVars, folderVars, sidecarVars >>
  \/ HandleClearSelection /\ UNCHANGED << scanVars, nfoVars, codecVars, genVars, cdVars, groupVars, findVars, fanVars, raceVars, startVars, folderVars, sidecarVars >>
  \/ \E path \in ListedPaths :
        ToggleFile(path) /\ UNCHANGED << scanVars, nfoVars, codecVars, genVars, cdVars, groupVars, findVars, fanVars, raceVars, startVars, folderVars, sidecarVars >>

DupSpecInit == DupInit /\ ScanIdle /\ NfoIdle /\ CodecIdle /\ GenIdle /\ CdIdle /\ GroupIdle /\ FindIdle /\ FanIdle /\ RaceIdle /\ StartIdle /\ FolderIdle /\ SidecarIdle
DupSpec == DupSpecInit /\ [][DupNext]_vars

\* the DuplicateFinder over the list of a finished scan: the user selects
\* files and deletes the selection; while the dialog is open or the deletion
\* runs, the dialog covers the check boxes and buttons
SampleAt(dir, name) == CHOOSE f \in DupSamples : f.path = Join(dir, name)
DeleteLists ==
  { << SampleAt(DupDirA, <<"m", ".", "m", "k", "v">>),
       SampleAt(DupDirB, <<"M", "-", "c", "d", "1", ".", "m", "k", "v">>),
       SampleAt(DupDirA, <<"m", "-", "c", "d", "1", ".", "a", "v", "i">>),
       SampleAt(DupDirB, <<"m", ".", "m", "k", "v">>) >>,
    << SampleAt(DupDirB, <<"m", "-", "c", "d", "2", ".", "m", "k", "v">>),
       SampleAt(DupDirA, <<"m", "-", "c", "d", "2", ".", "m", "k", "v">>),
       SampleAt(DupDirA, <<"m", ".", "m", "k", "v">>),
       SampleAt(DupDirB, <<"m", ".", "m", "k", "v">>) >> }

DeleteInit ==
  /\ dupFiles \in DeleteLists
  /\ dupGroupsMemo = dupGroups(dupFiles)
  /\ dupFormed = CandidateClusters(dupFiles)
  /\ dupStrategy = "none"
  /\ selectedPaths = {}
  /\ deleteCall = NoDeleteCall
  /\ filesDeleted = << >>

DeleteNext ==
  \/ \E strategy \in Strategies :
        /\ deleteCall.pc = "idle"
        /\ HandleSmartSelect(strategy)
        /\ UNCHANGED << scanVars, nfoVars, codecVars, genVars, cdVars, groupVars, findVars, fanVars, raceVars, startVars, folderVars, sidecarVars >>
  \/ \E path \in ListedPaths :
        /\ deleteCall.pc = "idle"
        /\ ToggleFile(path)
        /\ UNCHANGED << scanVars, nfoVars, codecVars, genVars, cdVars, groupVars, findVars, fanVars, raceVars, startVars, folderVars, sidecarVars >>
  \/ HandleDeleteSelected /\ UNCHANGED << scanVars, nfoVars, codecVars, genVars, cdVars, groupVars, findVars, fanVars, raceVars, startVars, folderVars, sidecarVars >>
  \/ ConfirmCancel /\ UNCHANGED << scanVars, nfoVars, codecVars, genVars, cdVars, groupVars, findVars, fanVars, raceVars, startVars, folderVars, sidecarVars >>
  \/ ConfirmOk /\ UNCHANGED << scanVars, nfoVars, codecVars, genVars, cdVars, groupVars, findVars, fanVars, raceVars, startVars, folderVars, sidecarVars >>
  \/ \E results \in [ deleteCall.paths -> BOOLEAN ] :
        DeleteFilesSettled(results) /\ UNCHANGED << scanVars, nfoVars, codecVars, genVars, cdVars, groupVars, findVars, fanVars, raceVars, startVars, folderVars, sidecarVars >>

DeleteSpecInit == DeleteInit /\ ScanIdle /\ NfoIdle /\ CodecIdle /\ GenIdle /\ CdIdle /\ GroupIdle /\ FindIdle /\ FanIdle /\ RaceIdle /\ StartIdle /\ FolderIdle /\ SidecarIdle
DeleteSpec == DeleteSpecInit /\ [][DeleteNext]_vars

\* the DuplicateFinder while its parent hands it new file lists: a file
\* leaves the list (it was deleted, or a scan no longer finds it), while
\* no dialog is open
WithoutFile(files, i) == SubSeq(files, 1, i - 1) \o SubSeq(files, i + 1, Len(files))
SelectNext ==
  \/ DeleteNext
  \/ \E i \in 1..Len(dupFiles) :
        /\ deleteCall.pc = "idle"
        /\ FilesChanged(WithoutFile(dupFiles, i))
        /\ UNCHANGED << scanVars, nfoVars, codecVars, genVars, cdVars, groupVars, findVars, fanVars, raceVars, startVars, folderVars, sidecarVars >>

SelectSpecInit == DeleteInit /\ ScanIdle /\ NfoIdle /\ CodecIdle /\ GenIdle /\ CdIdle /\ GroupIdle /\ FindIdle /\ FanIdle /\ RaceIdle /\ StartIdle /\ FolderIdle /\ SidecarIdle
SelectSpec == SelectSpecInit /\ [][SelectNext]_vars

(***************************************************************************)
(* What the scanner's claims speak about.                                  *)
(***************************************************************************)
CanonSet(S) == { Canon(p) : p \in S }

\* the canonical directories of the resolved roots of run r
RootDirs(r) == { Canon(r.roots[k]) : k \in 1..Len(r.roots) }

\* how many entries of the root list of run r have directory e at or below them
Covering(r, e) == Cardinality({ k \in 1..Len(r.roots) : AtOrAbove(Canon(r.roots[k]), e) })

\* no root of run r equals or contains another
RootsDisjoint(r) ==
  \A j, k \in 1..Len(r.roots) :
     j # k => ~AtOrAbove(Canon(r.roots[j]), Canon(r.roots[k]))

\* the directories of the tree below the roots of run r, and its video files
TreeDirs(r) == { e \in DirUniverse : fs[e].exists /\ Covering(r, e) > 0 }
VideoNames(e) == { n \in fs[e].files : IsVideoName(n) }
TreeVideoPaths(r) == UNION { { Join(e, n) : n \in VideoNames(e) } : e \in TreeDirs(r) }

\* directory e was not cut off by a failure in run r
Unfailed(r, e) == ~\E d \in CanonSet(r.failed) : AtOrAbove(d, e)

\* the number of onFound calls of run r for the file with canonical path cp
RECURSIVE SumCopies(_, _)
SumCopies(bag, S) ==
  IF S = {} THEN 0
  ELSE LET x == CHOOSE y \in S : TRUE
       IN  bag[x] + SumCopies(bag, S \ {x})
FoundCount(r, cp) == SumCopies(r.found, { x \in DOMAIN r.found : Canon(x.path) = cp })
FoundPaths(r) == { Canon(x.path) : x \in DOMAIN r.found }

\* a run has completed, and no directory changed during it or since
CompletedQuietRun ==
  /\ ~scanActive /\ cur.done /\ Len(cur.roots) > 0
  /\ cur.chg = {} /\ chgBetween = {}

\* cur and prev are two completed runs over the same resolved roots, with no
\* mtime changing between or during them
TwoQuietRuns ==
  /\ ~scanActive
  /\ cur.done /\ prev.done
  /\ Len(cur.roots) > 0
  /\ cur.roots = prev.roots
  /\ cur.between = {} /\ cur.chg = {} /\ prev.chg = {}

SecondRunAllHits ==
  /\ lastStats.readdirCount = 0
  /\ cur.listed = {}
  /\ BagToSet(cur.found) = BagToSet(prev.found)

StatReturned(t) ==
  /\ t \in DOMAIN tasks /\ tasks[t].pc = "stat"
  /\ t \in DOMAIN tasks' /\ tasks'[t].pc # "stat"
\* await readdir returned for call t in this step
ReaddirReturned(t) ==
  /\ t \in DOMAIN tasks /\ tasks[t].pc = "readdir"
  /\ t \in DOMAIN tasks' /\ tasks'[t].pc # "readdir"

\* the step replays the cached file list of t.dir and issues no readdir
ReplayedWithoutListing(t) ==
  /\ timings'.readdirCount = timings.readdirCount
  /\ timings'.cacheHits = timings.cacheHits + 1
  /\ t.dir \in DOMAIN dirCache
  /\ cur'.found = cur.found (+) SeqToBag(dirCache[t.dir].videoFiles)
  /\ tasks'[t].pc \in {"wait", "done"}

\* the step issues the readdir of t.dir
IssuedListing(t) ==
  /\ timings'.readdirCount = timings.readdirCount + 1
  /\ tasks'[t].pc = "readdir"
  /\ cur'.found = cur.found

\* the entry of t.dir after the step holds the stat'ed mtime, the video files
\* of the directory and its subdirectories
EntryReplaced(t) ==
  /\ t.dir \in DOMAIN dirCache'
  /\ dirCache'[t.dir].mtime = tasks[t].dirMtime
  /\ { dirCache'[t.dir].videoFiles[j].path : j \in 1..Len(dirCache'[t.dir].videoFiles) }
       = { Join(t.dir, n) : n \in VideoNames(Canon(t.dir)) }
  /\ Len(dirCache'[t.dir].videoFiles) = Cardinality(VideoNames(Canon(t.dir)))
  /\ { dirCache'[t.dir].subdirs[j] : j \in 1..Len(dirCache'[t.dir].subdirs) }
       = { Join(t.dir, n) : n \in SubdirNames(Canon(t.dir)) }
  /\ Len(dirCache'[t.dir].subdirs) = Cardinality(SubdirNames(Canon(t.dir)))

C2_Step ==
  \A t \in DOMAIN tasks :
     /\ (StatReturned(t) /\ ~StatFails(t.dir)) =>
          IF t.dir \in DOMAIN dirCache /\ dirCache[t.dir].mtime = fs[Canon(t.dir)].mtime
          THEN ReplayedWithoutListing(t)
          ELSE IssuedListing(t)
     /\ (ReaddirReturned(t) /\ ~ReaddirFails(t.dir)) => EntryReplaced(t)

\* C2: the cached list of a directory is replayed without a listing only when
\* an entry exists whose mtime equals the mtime stat returned; otherwise the
\* directory is listed and, when the listing succeeds, its entry is replaced by
\* the new mtime, the video files found and the subdirectories found.
C2_HitOnlyOnEqualMtime == [][C2_Step]_vars

\* a completed run that served a directory from the cache and re-listed
\* another whose mtime had changed, replacing its entry
C2_Witness ==
  /\ ~scanActive /\ cur.done
  /\ cur.hits # {}
  /\ \E p \in cur.listed :
        /\ Canon(p) \in cur.between
        /\ p \in DOMAIN dirCache
        /\ dirCache[p].mtime = fs[Canon(p)].mtime
        /\ dirCache[p].mtime > 0

\* between the two runs the only mtime changes are directory d, a proper
\* descendant of a root, and directories created below d
DeepChange(d) ==
  /\ ~scanActive
  /\ cur.done /\ prev.done
  /\ Len(cur.roots) > 0
  /\ cur.roots = prev.roots
  /\ cur.chg = {} /\ prev.chg = {} /\ chgBetween = {}
  /\ d \in cur.between
  /\ d \notin cur.created
  /\ \A c \in cur.between \ {d} : c \in cur.created /\ AtOrAbove(d, c)
  /\ \E k \in 1..Len(cur.roots) :
        Canon(cur.roots[k]) # d /\ AtOrAbove(Canon(cur.roots[k]), d)

DeepChangePickedUp(d) ==
  /\ \A p \in cur.hits \cup cur.listed \cup cur.failed :
        (Canon(p) # d /\ AtOrAbove(Canon(p), d)) => (p \in cur.hits /\ p \notin cur.listed)
  /\ \E p \in cur.hits : Canon(p) # d /\ AtOrAbove(Canon(p), d)
  /\ \E p \in cur.listed : Canon(p) = d
  /\ FoundPaths(cur) = TreeVideoPaths(cur)

ScanCanStep ==
  \/ \E t \in DOMAIN tasks : tasks[t].pc \in {"stat", "readdir"}
  \/ \E t \in DOMAIN tasks :
        /\ tasks[t].pc = "wait"
        /\ \A j \in BatchRange(tasks[t].subdirs, tasks[t].i) :
              tasks[TaskOf(t.root, tasks[t].subdirs[j])].pc = "done"
  \/ \A j \in 1..Len(cur.roots) : tasks[TaskOf(j, cur.roots[j])].pc = "done"

\* C4: a stat or readdir that rejects for directory d does not stop the scan,
\* and every video file of a directory that is neither d nor below d is
\* passed to onFound as often as without the failure: once per root entry
\* that covers it.
C4_FailureIsolated ==
  /\ (scanActive /\ cur.failed # {}) => ScanCanStep
  /\ (CompletedQuietRun /\ cur.failed # {}) =>
        \A e \in TreeDirs(cur) :
           Unfailed(cur, e) =>
              \A n \in VideoNames(e) : FoundCount(cur, Join(e, n)) = Covering(cur, e)

\* a completed run in which a directory failed and a video of a directory
\* outside the failed subtree was reported
C4_Witness ==
  /\ CompletedQuietRun
  /\ \E d \in DirUniverse : d \in CanonSet(cur.failed) /\ fs[d].exists
  /\ \E e \in TreeDirs(cur) :
        Unfailed(cur, e) /\ \E n \in VideoNames(e) : FoundCount(cur, Join(e, n)) >= 1

\* C5 as stated: in one scanDirectories call, whatever the roots, each video
\* file is passed to onFound exactly once: none twice, and none that is
\* reachable through readable directories omitted.
C5_AsStated ==
  CompletedQuietRun =>
     /\ \A cp \in FoundPaths(cur) : FoundCount(cur, cp) = 1
     /\ \A e \in TreeDirs(cur) :
           Unfailed(cur, e) => \A n \in VideoNames(e) : FoundCount(cur, Join(e, n)) = 1

\* C5 as amended: a video file is passed to onFound once per root entry whose
\* tree reached it, never more often than the number of root entries that
\* cover it, and at least once when it is reachable through readable
\* directories; exactly once when no root equals or contains another.
C5_OncePerCoveringRoot ==
  CompletedQuietRun =>
     /\ \A x \in DOMAIN cur.found :
           /\ FoundCount(cur, Canon(x.path)) <= Covering(cur, Canon(x.dirPath))
           /\ RootsDisjoint(cur) => FoundCount(cur, Canon(x.path)) = 1
     /\ \A e \in TreeDirs(cur) :
           Unfailed(cur, e) =>
              \A n \in VideoNames(e) :
                 /\ FoundCount(cur, Join(e, n)) >= 1
                 /\ RootsDisjoint(cur) => FoundCount(cur, Join(e, n)) = 1

\* a completed run over nested or repeated roots that reported a file twice
C5_Witness ==
  /\ CompletedQuietRun
  /\ ~RootsDisjoint(cur)
  /\ \E x \in DOMAIN cur.found : FoundCount(cur, Canon(x.path)) = 2

(***************************************************************************)
(* What the codec's and the editor's claims speak about.                   *)
(***************************************************************************)
\* C6 as stated: a record that carries a field outside the interface, once
\* serialized and parsed back, carries the same fields outside the interface.
C6_AsStated ==
  (codecOut # Null /\ DOMAIN UnknownFields(codecIn) # {}) =>
     UnknownFields(codecOut) = UnknownFields(codecIn)

\* a record with fields outside the interface came back without any
C6_Witness ==
  /\ codecOut # Null
  /\ DOMAIN UnknownFields(codecIn) # {}
  /\ DOMAIN UnknownFields(codecOut) = {}
  /\ codecOut.title = codecIn.title
  /\ codecOut.uniqueids = codecIn.uniqueids

\* nfoData is what readNfo made of the sidecar as it is now
FreshlyRead ==
  /\ rt.phase \in {"read", "reread"}
  /\ nfoFile # NoFile
  /\ nfoData # Null

\* the movie element's children by tag, as the parser delivers them
ParsedMovie == Get(Obj(ParseKids(nfoFile.xml)), "movie")
UnmappedTags == IF IsObj(ParsedMovie) THEN DOMAIN ParsedMovie.obj \ MappedTags ELSE {}

\* C7 as stated: the record readNfo returns has, for every top-level tag of
\* the movie element that is not a mapped tag, a field of that name holding
\* the tag's parsed value.
C7_AsStated ==
  FreshlyRead =>
     \A tag \in UnmappedTags :
        tag \in DOMAIN nfoData /\ nfoData[tag] = ParsedMovie.obj[tag]

\* a sidecar with an unmapped tag was read and the record has no such field
C7_Witness ==
  /\ FreshlyRead
  /\ "set" \in UnmappedTags
  /\ "set" \notin DOMAIN nfoData
  /\ nfoData.title = "7"

\* the sidecar was read, saved through the property panel, and read again
RereadAfterSave == rt.phase = "reread" /\ nfoData # Null /\ rt.first # Null

\* C8 as stated: after read, save through the property panel and read again,
\* ratings, unique IDs, poster, fanart and credits are those of the first read.
C8_AsStated ==
  RereadAfterSave =>
     /\ nfoData.ratings = rt.first.ratings
     /\ nfoData.uniqueids = rt.first.uniqueids
     /\ nfoData.poster = rt.first.poster
     /\ nfoData.fanart = rt.first.fanart
     /\ nfoData.credits = rt.first.credits

\* poster and fanart were lost by the save, the other three fields kept
C8_Witness ==
  /\ RereadAfterSave
  /\ rt.first.poster # "" /\ nfoData.poster = ""
  /\ rt.first.fanart # "" /\ nfoData.fanart = ""
  /\ Len(rt.first.ratings) > 0 /\ nfoData.ratings = rt.first.ratings
  /\ DOMAIN rt.first.uniqueids # {} /\ nfoData.uniqueids = rt.first.uniqueids
  /\ Len(rt.first.credits) > 0 /\ nfoData.credits = rt.first.credits

\* saveNfo's writeFile replaces an existing sidecar in this step
SaveOverwrites ==
  /\ save.pc = "write"
  /\ save'.pc = "idle"
  /\ saveResult' = "ok"
  /\ nfoFile # NoFile

\* C9 as stated: whenever saveNfo writes over an existing sidecar, the file at
\* <path>.bak holds the content the sidecar had just before the write, also
\* when the copy failed for a reason other than the sidecar being absent.
C9_AsStated == [][SaveOverwrites => bakFile = nfoFile]_vars

\* an existing sidecar was overwritten after its backup copy had failed, and
\* the .bak did not hold the content that was replaced
C9_Witness ==
  /\ lastWrite.wrote /\ lastWrite.overwrote
  /\ lastWrite.copy = "failed"
  /\ ~lastWrite.backedUp

(***************************************************************************)
(* What the generation claims speak about.                                 *)
(***************************************************************************)
\* C10 as stated: a file emitted by the scan started for generation g is
\* never in the collected list, nor in the displayed list, of a later
\* generation.
C10_AsStated ==
  /\ \A L \in DOMAIN calls :
        \A i \in 1..Len(calls[L].collectedFiles) : calls[L].collectedFiles[i].origin >= L
  /\ \A i \in 1..Len(rawFiles) : rawFiles[i].origin >= scanGenRef

\* the displayed list of generation 2 shows a file that only the scan of
\* generation 1 emitted, from a directory no longer configured
C10_Witness ==
  /\ scanGenRef = 2
  /\ \E i \in 1..Len(rawFiles) :
        /\ rawFiles[i].origin = 1
        /\ GenDirOf[rawFiles[i].path] \notin genDirs

(***************************************************************************)
(* What the claims about superseded generations speak about.               *)
(***************************************************************************)
\* call L has left its wait and was not superseded there: it committed a list
Committed(L) == calls[L].pc \in { "metadata", "nfo", "done" }

\* the paths of a list of collected files
PathsOf(list) == { list[i].path : i \in 1..Len(list) }

\* C11: a call of handleScan that commits its list left its wait on the
\* 'scan-complete' of the scan it invoked itself, and the list holds every
\* file that scan emits.
C11_AsStated ==
  \A L \in DOMAIN calls :
     Committed(L) =>
        /\ calls[L].endedBy = L
        /\ L \in DOMAIN mainScans
        /\ mainScans[L].files \subseteq PathsOf(calls[L].collectedFiles)

\* the current call committed a list on the completion of an earlier scan;
\* its own scan ran afterwards and its file is not shown
C11_Witness ==
  \E L \in DOMAIN calls :
     /\ scanGenRef = L
     /\ calls[L].pc = "done"
     /\ calls[L].endedBy \notin { 0, L }
     /\ L \in DOMAIN mainScans
     /\ mainScans[L].done
     /\ ipc = << >>
     /\ mainScans[L].files # {}
     /\ mainScans[L].files \cap PathsOf(rawFiles) = {}

\* C12: every write to the displayed file list, the NFO map and the loading
\* status, and every saveScanCache, is made by the call whose generation is
\* the current one at the moment of the write: a call that was superseded
\* writes nothing more, wherever it was waiting.
C12_NoWriteOnceSuperseded ==
  \A w \in writeLog : w.by = w.at

\* a call was superseded while it awaited a batch of readNfo calls, after it
\* had shown its list, and returned without the map or the cache; the call
\* that superseded it then completed
C12_Witness ==
  \E L \in DOMAIN calls :
     /\ calls[L].pc = "superseded"
     /\ calls[L].stoppedAt = "nfo"
     /\ [ by |-> L, at |-> L, what |-> "rawFiles" ] \in writeLog
     /\ \A w \in writeLog : w.by = L => w.what # "saveScanCache"
     /\ scanGenRef > L
     /\ calls[scanGenRef].pc = "done"
     /\ [ by |-> scanGenRef, at |-> scanGenRef, what |-> "saveScanCache" ] \in writeLog

(***************************************************************************)
(* What the claim about part names speaks about, said without the          *)
(* scanner's pattern.                                                      *)
(***************************************************************************)
\* the keywords in every letter case
BothCases ==
  ("c" :> {"c", "C"}) @@ ("d" :> {"d", "D"}) @@ ("i" :> {"i", "I"}) @@ ("s" :> {"s", "S"})
  @@ ("k" :> {"k", "K"}) @@ ("p" :> {"p", "P"}) @@ ("a" :> {"a", "A"}) @@ ("r" :> {"r", "R"})
  @@ ("t" :> {"t", "T"})
PartWords == { <<"c", "d">>, <<"d", "i", "s", "c">>, <<"d", "i", "s", "k">>, <<"p", "a", "r", "t">> }
IsPartWord(w) ==
  \E k \in PartWords : Len(w) = Len(k) /\ \A j \in 1..Len(k) : w[j] \in BothCases[k[j]]

\* the value of a decimal digit string, most significant digit first
DecimalDigit ==
  ("0" :> 0) @@ ("1" :> 1) @@ ("2" :> 2) @@ ("3" :> 3) @@ ("4" :> 4)
  @@ ("5" :> 5) @@ ("6" :> 6) @@ ("7" :> 7) @@ ("8" :> 8) @@ ("9" :> 9)
RECURSIVE DecimalFrom(_, _)
DecimalFrom(acc, ds) ==
  IF ds = << >> THEN acc ELSE DecimalFrom(10 * acc + DecimalDigit[Head(ds)], Tail(ds))

\* the ways to read s as <name><sep><keyword><digits>: where the name ends
\* and how long the keyword is
PartReadings(s) ==
  { r \in (0..Len(s)) \X {2, 4} :
      /\ r[1] + 1 + r[2] < Len(s)
      /\ s[r[1] + 1] \in {"-", "_", " ", "."}
      /\ IsPartWord(SubSeq(s, r[1] + 2, r[1] + 1 + r[2]))
      /\ \A j \in (r[1] + r[2] + 2)..Len(s) : s[j] \in DOMAIN DecimalDigit }

\* what the claim promises for a stem of that form
PartResult(s, r) ==
  [ baseName |-> SubSeq(s, 1, r[1]),
    cdIndex  |-> DecimalFrom(0, SubSeq(s, r[1] + r[2] + 2, Len(s))) ]

\* where the extension of a file name starts: at its last ".", unless that
\* is its first character; past the end when it has none
ExtensionAt(s) ==
  LET dots == { i \in 2..Len(s) : s[i] = "." }
  IN  IF dots = {} THEN Len(s) + 1 ELSE CHOOSE i \in dots : \A j \in dots : j <= i
WithoutExtension(s) == SubSeq(s, 1, ExtensionAt(s) - 1)

\* the name is written <stem>.<ext> with a non-empty extension
HasWrittenExtension(s) == ExtensionAt(s) < Len(s)

GroupsOf(i) ==
  { g \in 1..Len(videoGroups) :
      \E p \in 1..Len(videoGroups[g].parts) : videoGroups[g].parts[p].path = listFiles[i].path }

\* C14 as stated: every file is in exactly one group, and two files are in
\* one group exactly when they have the same dirPath and the same baseName.
C14_AsStated ==
  /\ \A i \in 1..Len(listFiles) : Cardinality(GroupsOf(i)) = 1
  /\ \A i, j \in 1..Len(listFiles) :
        (GroupsOf(i) = GroupsOf(j))
           <=> (listFiles[i].dirPath = listFiles[j].dirPath
                /\ listFiles[i].baseName = listFiles[j].baseName)
  /\ \A g \in 1..Len(videoGroups) : \A p, q \in 1..Len(videoGroups[g].parts) :
        /\ videoGroups[g].parts[p].dirPath = videoGroups[g].parts[q].dirPath
        /\ videoGroups[g].parts[p].baseName = videoGroups[g].parts[q].baseName

\* one group shows two files of different directories as parts of one movie
C14_Witness ==
  \E g \in 1..Len(videoGroups) :
     /\ videoGroups[g].partCount = 2
     /\ videoGroups[g].parts[1].dirPath # videoGroups[g].parts[2].dirPath
     /\ videoGroups[g].parts[1].baseName # videoGroups[g].parts[2].baseName
     /\ videoGroups[g].totalSize = videoGroups[g].parts[1].size + videoGroups[g].parts[2].size

\* the sum of a set of numbers
RECURSIVE SumOfSet(_)
SumOfSet(S) == IF S = {} THEN 0 ELSE LET x == CHOOSE y \in S : TRUE IN x + SumOfSet(S \ {x})

\* the sizes of the files of the list that carry the key of group g
SizesUnder(g) ==
  { listFiles[i].size : i \in { k \in 1..Len(listFiles) : GroupKey(listFiles[k]) = videoGroups[g].key } }

\* C15: in every group the parts ascend by cdIndex (0 first), the primary
\* file is the first part, partCount is the number of parts, totalSize the
\* sum of their sizes, and nfoPath the nfoPath of the first part that has
\* one, or none.
C15_GroupFields ==
  \A g \in 1..Len(videoGroups) :
     LET G == videoGroups[g]
         n == Len(G.parts)
         have == { p \in 1..n : G.parts[p].nfoPath # <<>> }
     IN  /\ n >= 1
         /\ \A p, q \in 1..n : p < q => G.parts[p].cdIndex <= G.parts[q].cdIndex
         /\ \A p, q \in 1..n : G.parts[p].cdIndex = 0 /\ G.parts[q].cdIndex > 0 => p < q
         /\ G.primaryPath = G.parts[1].path
         /\ G.displayName = G.parts[1].baseName
         /\ G.partCount = n
         /\ Cardinality(SizesUnder(g)) = n
         /\ G.totalSize = SumOfSet(SizesUnder(g))
         /\ IF have = {} THEN G.nfoPath = <<>>
            ELSE \E p \in have : /\ \A q \in have : p <= q
                                 /\ G.nfoPath = G.parts[p].nfoPath

\* a movie listed as part 2, part 1, whole file: the group starts with the
\* whole file, which has no sidecar, and takes the sidecar of part 1
C15_Witness ==
  /\ Len(listFiles) = 3
  /\ listFiles[1].cdIndex = 2 /\ listFiles[2].cdIndex = 1 /\ listFiles[3].cdIndex = 0
  /\ Len(videoGroups) = 1
  /\ videoGroups[1].partCount = 3
  /\ videoGroups[1].primaryPath = listFiles[3].path
  /\ listFiles[3].nfoPath = <<>>
  /\ listFiles[1].nfoPath # listFiles[2].nfoPath
  /\ videoGroups[1].nfoPath = listFiles[2].nfoPath
  /\ videoGroups[1].totalSize = 7

(***************************************************************************)
(* What the end-to-end claim speaks about: the files of one scan as the    *)
(* renderer collects them, and their groups.                               *)
(***************************************************************************)
\* the lists handleScan can collect from the files passed to onFound: one
\* file per path (seenPaths), in any order of arrival
Arrivals ==
  LET emitted == BagToSet(cur.found)
      paths == { f.path : f \in emitted }
  IN  { q \in DistinctSeqs(emitted, Cardinality(paths)) :
          /\ Len(q) = Cardinality(paths)
          /\ \A i, j \in 1..Len(q) : q[i].path = q[j].path => i = j }

\* the groups of directory dir and base name base
GroupsFor(groups, dir, base) ==
  { g \in 1..Len(groups) : groups[g].dirPath = dir /\ groups[g].baseName = base }

\* one group for the movie in directory a, with both parts and the sidecar
OneGroupOfParts ==
  \A q \in Arrivals :
     LET groups == groupVideos(q)
         mine == GroupsFor(groups, UncA, << "m" >>)
     IN  /\ Cardinality(mine) = 1
         /\ \A g \in mine : /\ groups[g].partCount = 2
                            /\ groups[g].nfoPath = Join(UncA, PartsNfo)

\* a scan has ended and directory a holds the two parts and the sidecar,
\* as it did from the start of that scan on
PartsScanned ==
  /\ cur.done
  /\ Len(cur.roots) > 0
  /\ ~scanActive
  /\ { PartOne, PartTwo, PartsNfo } \subseteq fs[UncA].files
  /\ UncA \notin cur.chg \cup chgBetween

Reported == dupGroupsMemo
Candidates == dupFormed

\* the positions in dupFiles of the members of a cluster
Members(cluster) ==
  { i \in 1..Len(dupFiles) : \E m \in 1..Len(cluster.files) : cluster.files[m].path = dupFiles[i].path }

\* C17: two files with different positive part indices are never in one
\* cluster, and two files with the same base name and the same positive part
\* index in different directories are in one reported cluster.
C17_PartsApart ==
  /\ \A c \in 1..Len(Candidates) : \A i, j \in Members(Candidates[c]) :
        dupFiles[i].cdIndex > 0 /\ dupFiles[j].cdIndex > 0
           => dupFiles[i].cdIndex = dupFiles[j].cdIndex
  /\ \A i, j \in 1..Len(dupFiles) :
        ( /\ dupFiles[i].baseName = dupFiles[j].baseName
          /\ dupFiles[i].cdIndex > 0
          /\ dupFiles[i].cdIndex = dupFiles[j].cdIndex
          /\ dupFiles[i].dirPath # dupFiles[j].dirPath )
        => \E g \in 1..Len(Reported) : { i, j } \subseteq Members(Reported[g])

\* part 1 and part 2 of one movie exist twice each: two clusters are
\* reported, one for each part
C17_Witness ==
  /\ Len(dupFiles) = 4
  /\ Len(Reported) = 2
  /\ \E g, h \in 1..Len(Reported) :
        /\ \A i \in Members(Reported[g]) : dupFiles[i].cdIndex = 1
        /\ \A i \in Members(Reported[h]) : dupFiles[i].cdIndex = 2
        /\ Cardinality(Members(Reported[g])) = 2
        /\ Cardinality(Members(Reported[h])) = 2
        /\ \E i, j \in Members(Reported[h]) : dupFiles[i].dirPath # dupFiles[j].dirPath

\* the files of the list with the base name of file i, letter case aside
BaseGroup(i) ==
  { j \in 1..Len(dupFiles) : ToLowerCase(dupFiles[j].baseName) = ToLowerCase(dupFiles[i].baseName) }

\* the base-name group of file i holds files with and without a part index
Mixed(i) ==
  /\ \E j \in BaseGroup(i) : dupFiles[j].cdIndex = 0
  /\ \E j \in BaseGroup(i) : dupFiles[j].cdIndex > 0

\* the part whose cluster file i belongs to
ClusterPart(i) ==
  IF Mixed(i) /\ dupFiles[i].cdIndex = 0
  THEN CHOOSE n \in { dupFiles[j].cdIndex : j \in BaseGroup(i) } \ {0} :
          \A j \in BaseGroup(i) : dupFiles[j].cdIndex > 0 => n <= dupFiles[j].cdIndex
  ELSE dupFiles[i].cdIndex

\* the candidate clusters that hold file i
CandidatesOf(i) == { c \in 1..Len(Candidates) : i \in Members(Candidates[c]) }

\* C18: in a base-name group with and without part indices the files
\* without one join the cluster of the lowest part present and no other, and
\* every other part is a cluster of its own; in a group that does not mix
\* them every part index, 0 included, is a cluster of its own.
C18_ZeroJoinsLowestPart ==
  /\ \A i \in 1..Len(dupFiles) : Cardinality(CandidatesOf(i)) = 1
  /\ \A i, j \in 1..Len(dupFiles) :
        (CandidatesOf(i) = CandidatesOf(j))
           <=> (j \in BaseGroup(i) /\ ClusterPart(i) = ClusterPart(j))

\* a whole file, a part 1 and a part 2 of one movie: the whole file is
\* reported as a duplicate of part 1, and part 2 stays alone
C18_Witness ==
  \E i, j, k \in 1..Len(dupFiles) :
     /\ { j, k } \subseteq BaseGroup(i)
     /\ dupFiles[i].cdIndex = 0 /\ dupFiles[j].cdIndex = 1 /\ dupFiles[k].cdIndex = 2
     /\ \E g \in 1..Len(Reported) : Members(Reported[g]) = { i, j }
     /\ \E c \in 1..Len(Candidates) : Members(Candidates[c]) = { k }

\* the reported clusters that hold file i
ReportedOf(i) == { g \in 1..Len(Reported) : i \in Members(Reported[g]) }

\* C19: every reported cluster has more than one member, its members have
\* one base name, letter case aside, and no file is in two reported clusters.
C19_ReportedClusters ==
  /\ \A g \in 1..Len(Reported) :
        /\ Len(Reported[g].files) > 1
        /\ Cardinality(Members(Reported[g])) = Len(Reported[g].files)
        /\ \A i \in Members(Reported[g]) : Members(Reported[g]) \subseteq BaseGroup(i)
  /\ \A i \in 1..Len(dupFiles) : Cardinality(ReportedOf(i)) <= 1

\* a cluster is reported whose members' base names differ in case, while
\* another file of the list, alone with its part index, is in none
C19_Witness ==
  /\ \E g \in 1..Len(Reported) : \E i, j \in Members(Reported[g]) :
        dupFiles[i].baseName # dupFiles[j].baseName
  /\ \E i \in 1..Len(dupFiles) : ReportedOf(i) = {} /\ Cardinality(BaseGroup(i)) > 1

\* what each strategy orders the files by, most significant first
QualityKey(strategy, file) ==
  IF strategy = "lowres" THEN << getResolution(file), file.size >>
  ELSE IF strategy = "oldcodec"
  THEN << getCodecRank(MetaOr(file, "videoCodec", << >>)), getResolution(file) >>
  ELSE << file.size, 0 >>

StrictlyBetter(strategy, a, b) ==
  LET ka == QualityKey(strategy, a)
      kb == QualityKey(strategy, b)
  IN  ka[1] > kb[1] \/ (ka[1] = kb[1] /\ ka[2] > kb[2])

\* the members of a reported cluster that are not selected
Kept(g) == { i \in Members(Reported[g]) : dupFiles[i].path \notin selectedPaths }

\* C20: after handleSmartSelect every cluster has exactly one unselected
\* member, all its other members are selected and nothing else is, and no
\* member is strictly better than the unselected one under the strategy's
\* ordering.
C20_KeepsOneBest ==
  dupStrategy \in Strategies =>
     /\ \A g \in 1..Len(Reported) :
           /\ Cardinality(Kept(g)) = 1
           /\ \A k \in Kept(g) : \A i \in Members(Reported[g]) :
                 ~StrictlyBetter(dupStrategy, dupFiles[i], dupFiles[k])
     /\ selectedPaths \subseteq ListedPaths

\* prefer-newer-codec keeps a file that is not the first of its cluster: the
\* file with the highest resolution is selected for deletion
C20_Witness ==
  /\ dupStrategy = "oldcodec"
  /\ \E g \in 1..Len(Reported) : \E k \in Kept(g) :
        /\ Reported[g].files[1].path \in selectedPaths
        /\ getResolution(Reported[g].files[1]) > getResolution(dupFiles[k])
        /\ Len(Reported[g].files) = 3

(***************************************************************************)
(* Ranking and the order of discovery.                                     *)
(***************************************************************************)
\* the same files in the opposite order of discovery
ReverseSeq(q) == [ i \in 1..Len(q) |-> q[Len(q) + 1 - i] ]

\* the member sets of reported clusters, by path
MemberSets(groups) ==
  { { groups[g].files[i].path : i \in 1..Len(groups[g].files) } : g \in 1..Len(groups) }

\* two files that tie on every attribute the strategy compares
TieOnEveryAttribute(strategy, a, b) ==
  QualityKey(strategy, a) = QualityKey(strategy, b)

\* C21: for every file list, the list discovered in another order gives
\* clusters with the same member sets and, for every strategy, the same
\* set of deletion candidates, ties on every compared attribute included.
C21_AsStated ==
  LET other == dupGroups(ReverseSeq(dupFiles))
  IN  /\ MemberSets(other) = MemberSets(dupGroupsMemo)
      /\ \A strategy \in Strategies :
            SmartSelection(strategy, other) = SmartSelection(strategy, dupGroupsMemo)

\* handleSmartSelect has selected one of two copies that tie on every
\* attribute; with the files discovered in the opposite order the clusters
\* have the same members and it selects the other copy
C21_Witness ==
  /\ dupStrategy \in Strategies
  /\ Len(dupFiles) = 2
  /\ TieOnEveryAttribute(dupStrategy, dupFiles[1], dupFiles[2])
  /\ selectedPaths = { dupFiles[2].path }
  /\ LET other == dupGroups(ReverseSeq(dupFiles))
     IN  /\ MemberSets(other) = MemberSets(dupGroupsMemo)
         /\ SmartSelection(dupStrategy, other) = { dupFiles[1].path }

(***************************************************************************)
(* Deleting the selected duplicates.                                       *)
(***************************************************************************)
\* the paths deleteFiles was asked to delete and could not
FailedOf(results) == { p \in DOMAIN results : ~results[p] }

\* the step in which deleteFiles' results are handled
DeleteHandled ==
  deleteCall.pc = "deleting" /\ deleteCall'.pc = "idle"

\* what that step passed to onFilesDeleted
ReportedDeleted ==
  IF Len(filesDeleted') = Len(filesDeleted) THEN {}
  ELSE filesDeleted'[Len(filesDeleted')]

\* C28: when deleteFiles has returned its per-path outcomes, onFilesDeleted
\* receives exactly the paths that were deleted (no call when there is
\* none), exactly those leave the selection, and every path that failed
\* stays selected, whatever the other outcomes are.
C28_SuccessesReported ==
  [][ DeleteHandled =>
        LET results == deleteCall'.results
        IN  /\ DOMAIN results = deleteCall.paths
            /\ ReportedDeleted = { p \in deleteCall.paths : results[p] }
            /\ Len(filesDeleted') <= Len(filesDeleted) + 1
            /\ selectedPaths' = selectedPaths \ { p \in deleteCall.paths : results[p] }
            /\ FailedOf(results) \subseteq selectedPaths' ]_vars

\* a deletion of three files in which one failed: the two deleted ones were
\* reported and left the selection, the failed one is still selected
C28_Witness ==
  /\ deleteCall.pc = "idle"
  /\ Cardinality(deleteCall.paths) = 3
  /\ Cardinality(FailedOf(deleteCall.results)) = 1
  /\ Len(filesDeleted) = 1
  /\ Cardinality(filesDeleted[1]) = 2
  /\ selectedPaths = FailedOf(deleteCall.results)

(***************************************************************************)
(* The saved scan results.                                                 *)
(***************************************************************************)
\* the handleScan calls that ran to their end
Completed == { L \in DOMAIN calls : calls[L].pc = "done" }

\* the last of them
LastCompleted == CHOOSE L \in Completed : \A M \in Completed : M <= L

\* C30: once a handleScan call has run to its end, what saveScanCache was
\* last given is the complete file list of the last such call's scan, also
\* when that scan found no video file.
C30_AsStated ==
  Completed # {} =>
     /\ LastCompleted \in DOMAIN mainScans
     /\ PathsOf(scanCache) = mainScans[LastCompleted].files
     /\ Len(scanCache) = Cardinality(mainScans[LastCompleted].files)

\* the second scan, over no directory, found nothing and ran to its end on
\* its own completion event; the saved list is still that of the first scan
C30_Witness ==
  /\ Completed = {1, 2}
  /\ calls[1].endedBy = 1
  /\ calls[2].endedBy = 2
  /\ mainScans[2].files = {}
  /\ calls[2].collectedFiles = << >>
  /\ rawFiles = << >>
  /\ scanCache = calls[1].collectedFiles
  /\ Len(scanCache) > 0

(***************************************************************************)
(* The sidecars loaded after a scan.                                       *)
(***************************************************************************)
\* the groups with a sidecar of a call, by position in groupsWithNfo
LoadedGroups(L) == calls[L].groupsWithNfo

\* C29: when the load of a call has finished without supersession, the map
\* has an entry for exactly the groups whose sidecar was read, each entry is
\* the record read from the sidecar of its own group, and it is the map the
\* App shows; a read that gave nothing leaves only its own group without an
\* entry, wherever it stood in its batch.
C29_FailureStaysLocal ==
  \A L \in DOMAIN calls :
     calls[L].pc = "done" =>
        LET groups == LoadedGroups(L)
            map == calls[L].map
        IN  /\ DOMAIN map =
                  { groups[k].key : k \in { j \in 1..Len(groups) :
                                               groups[j].nfoPath \notin calls[L].readFailed } }
            /\ \A k \in 1..Len(groups) :
                  groups[k].key \in DOMAIN map =>
                     map[groups[k].key] = ReadRecord(groups[k].nfoPath)
            /\ scanGenRef = L => nfoMap = map

\* a load of two batches has finished: one read of the first batch and the
\* only read but one of the second gave nothing, every other group has its
\* entry
C29_Witness ==
  /\ scanGenRef = 1
  /\ calls[1].pc = "done"
  /\ Len(LoadedGroups(1)) = NFO_BATCH + 2
  /\ calls[1].readFailed = { LoadedGroups(1)[NFO_BATCH].nfoPath,
                             LoadedGroups(1)[NFO_BATCH + 1].nfoPath }
  /\ Cardinality(DOMAIN nfoMap) = NFO_BATCH
  /\ LoadedGroups(1)[NFO_BATCH + 2].key \in DOMAIN nfoMap

(***************************************************************************)
(* A save whose write fails.                                               *)
(***************************************************************************)
\* the step in which saveNfo's writeFile rejected and handleSaveNfo handled
\* the answer of 'save-nfo'
WriteFailedStep == save.pc = "write" /\ save'.pc = "idle" /\ writeRejected'

\* C27: when the write of saveNfo fails, 'save-nfo' resolves with
\* success = false and a non-empty error string, and handleSaveNfo leaves the
\* parts' nfoPath, the selected group's nfoPath, the group's entry of the
\* NFO map and the displayed metadata as they were.
C27_FailedSaveChangesNothing ==
  [][ WriteFailedStep =>
        /\ saveReply' # Null
        /\ saveReply'.success = FALSE
        /\ "error" \in DOMAIN saveReply'
        /\ saveReply'.error # ""
        /\ UNCHANGED << partsNfoPath, groupNfoPath, nfoMapEntry, nfoData >> ]_vars

\* a group without a sidecar was edited and the write failed: there is no
\* sidecar, no path, no entry, and the panel still shows the record from
\* before the edit, which is not the one that was to be saved
C27_Witness ==
  /\ writeRejected
  /\ save.pc = "idle"
  /\ saveReply = SaveNfoReply(FALSE)
  /\ nfoFile = NoFile
  /\ ~groupNfoPath
  /\ ~partsNfoPath
  /\ nfoMapEntry = Null
  /\ nfoData = createEmptyNfo

(***************************************************************************)
(* The sidecar of a video.                                                 *)
(***************************************************************************)
\* some entry of the listing that is not a directory bears this name, in
\* any case of its letters
PresentAsFile(name) ==
  \E j \in 1..Len(findEntries) :
     /\ ~findEntries[j].isDirectory
     /\ ToLowerCase(findEntries[j].name) = ToLowerCase(name)

\* the sidecar names tried for the video, in order
SidecarCandidates ==
  LET baseName == parseCdInfo(findVideo).baseName
      videoName == WithoutExtension(findVideo)
  IN  << baseName \o NfoExt >>
      \o (IF videoName # baseName THEN << videoName \o NfoExt >> ELSE << >>)
      \o << MovieNfo >>

\* C26: findNfoFileFromCache returns the first of <baseName>.nfo,
\* <name without extension>.nfo (when it differs) and movie.nfo that some
\* non-directory entry of the listing bears, letter case disregarded, and
\* null when none does; directories bearing these names do not count.
C26_FirstCandidatePresent ==
  findResult.done =>
     LET c == SidecarCandidates
         firsts == { k \in 1..Len(c) :
                       PresentAsFile(c[k]) /\ \A j \in 1..(k - 1) : ~PresentAsFile(c[j]) }
     IN  IF firsts = {} THEN findResult.nfoPath = << >>
         ELSE \A k \in firsts : findResult.nfoPath = Join(FindDir, c[k])

\* the part m-cd1.mkv in a listing where m.nfo is a directory, M-CD1.nfo is
\* absent and Movie.nfo is a file: the directory is passed over and
\* movie.nfo is returned
C26_Witness ==
  /\ findResult.done
  /\ findVideo = <<"m", "-", "c", "d", "1", ".", "m", "k", "v">>
  /\ \E j \in 1..Len(findEntries) :
        findEntries[j].isDirectory /\ findEntries[j].name = <<"m", ".", "n", "f", "o">>
  /\ ~PresentAsFile(<<"m", ".", "n", "f", "o">>)
  /\ ~PresentAsFile(<<"m", "-", "c", "d", "1", ".", "n", "f", "o">>)
  /\ findResult.nfoPath = Join(FindDir, MovieNfo)

(***************************************************************************)
(* The fan-out of a scan.                                                  *)
(***************************************************************************)
\* the scans of immediate subdirectories a root's call has in flight
ChildScansInFlight(f) == f.started - f.settled

\* the stat and readdir operations in flight at and below one root
OpsOf(f) == (IF f.pc \in {"stat", "readdir"} THEN 1 ELSE 0) + f.kStat + f.kReaddir + f.kWait

\* the stat and readdir operations in flight in the whole scan
OpsInFlight ==
  LET frames == BagToSet(dirScans)
      RECURSIVE Sum(_)
      Sum(S) == IF S = {} THEN 0
                ELSE LET f == CHOOSE x \in S : TRUE
                     IN  CopiesIn(f, dirScans) * OpsOf(f) + Sum(S \ {f})
  IN  Sum(frames)

ActiveOn(dir) == { t \in DOMAIN tasks : t.dir = dir /\ tasks[t].pc # "done" }

Emitted == IF cur'.done = cur.done /\ cur'.roots = cur.roots
           THEN BagToSet(cur'.found (-) cur.found) ELSE {}

\* the call for the directory above the one t works on, t not being a root
ParentTask(t) == TaskOf(t.root, ParentDir(t.dir))
IsRootTask(t) == t.dir = cur.roots[t.root]

\* C25 as stated: the onFound calls for the files of a directory are
\* consecutive, and none of them comes after the start of a scan of one of
\* its subdirectories.
C25_AsStated ==
  [][ \A f \in Emitted :
        /\ (\E g \in BagToSet(cur.found) : g.dirPath = f.dirPath) => cur.last = f.dirPath
        /\ \A t \in DOMAIN tasks : ParentDir(t.dir) # f.dirPath ]_vars

\* C25: a scanDirectory call passes the files of its directory to onFound
\* in one run without an await, whole and nothing else, and the calls for
\* its subdirectories exist only after that.
C25_OwnFilesThenSubdirectories ==
  [][ /\ Emitted # {} =>
           \E t \in DOMAIN tasks :
              /\ tasks[t].pc \in {"stat", "readdir"}
              /\ tasks'[t].pc \in {"wait", "done"}
              /\ cur'.found = cur.found (+) SeqToBag(dirCache'[t.dir].videoFiles)
              /\ \A f \in Emitted : f.dirPath = t.dir
              /\ \A x \in DOMAIN tasks : ~(x.root = t.root /\ ParentDir(x.dir) = t.dir)
      /\ scanActive =>
           \A t \in DOMAIN tasks :
              ~IsRootTask(t) =>
                 /\ ParentTask(t) \in DOMAIN tasks
                 /\ tasks[ParentTask(t)].pc \in {"wait", "done"}
                 /\ ParentDir(t.dir) \in DOMAIN dirCache
                 /\ \A j \in 1..Len(dirCache[ParentDir(t.dir)].videoFiles) :
                       CopiesIn(dirCache[ParentDir(t.dir)].videoFiles[j], cur.found) >= 1 ]_vars

\* a directory with a video file and a subdirectory: its file has been
\* passed on and the call for the subdirectory is at its stat
C25_Witness ==
  \E t \in DOMAIN tasks :
     /\ ~IsRootTask(t)
     /\ tasks[t].pc = "stat"
     /\ Len(dirCache[ParentDir(t.dir)].videoFiles) > 0
     /\ cur.last = ParentDir(t.dir)

(***************************************************************************)
(* The poster reference.                                                   *)
(***************************************************************************)
\* the <thumb> elements of the document parsed, in document order
ThumbsOf(file) ==
  LET kids == file.xml["movie"][1].kids
  IN  IF "thumb" \in DOMAIN kids THEN kids["thumb"] ELSE << >>
TaggedPoster(e) == "aspect" \in DOMAIN e.attrs /\ e.attrs["aspect"] = "poster"
Untagged(e) == "aspect" \notin DOMAIN e.attrs
FirstOf(S) == CHOOSE i \in S : \A j \in S : i <= j

\* C31 as stated: the poster is the text of the entry tagged "poster"
\* whenever there is one, wherever it stands; with none tagged as poster it
\* is the text of the first untagged entry.
C31_AsStated ==
  codecXml # NoFile /\ codecOut # Null =>
    LET thumbs == ThumbsOf(codecXml)
        posters == { i \in 1..Len(thumbs) : TaggedPoster(thumbs[i]) }
        untagged == { i \in 1..Len(thumbs) : Untagged(thumbs[i]) }
    IN  /\ posters # {} => codecOut.poster = thumbs[FirstOf(posters)].text
        /\ posters = {} /\ untagged # {} => codecOut.poster = thumbs[FirstOf(untagged)].text

\* an untagged entry stands before the one tagged "poster", and the
\* untagged entry's text is returned
C31_Witness ==
  /\ codecXml # NoFile
  /\ codecOut # Null
  /\ ThumbsOf(codecXml) = << TextElem("a.jpg"), AttrElem("aspect" :> "poster", "p.jpg") >>
  /\ codecOut.poster = "a.jpg"

(***************************************************************************)
(* The age of a cached listing.                                            *)
(***************************************************************************)
\* C32: the listing of a cache entry was read when the directory had the
\* entry's mtime or a later one, and a cache hit replays a listing read at
\* the mtime its stat gave or later, whatever the changes of the directory
\* and the other calls on the same key do meanwhile.
C32_ListingNotOlderThanMtime ==
  /\ dirEntry # NoEntry => dirEntry.listing >= dirEntry.mtime
  /\ \A c \in DOMAIN dirCalls :
        dirCalls[c].replayed # NoReplay =>
           dirCalls[c].replayed.listing >= dirCalls[c].replayed.mtime

\* a call's stat read the directory before a change, another call on the
\* same key listed it after the change and wrote the entry with the mtime
\* from before, and the first call then hit that entry
C32_Witness ==
  \E c \in DOMAIN dirCalls :
     /\ dirCalls[c].replayed # NoReplay
     /\ dirCalls[c].replayed.listing > dirCalls[c].replayed.mtime
     /\ dirNow > dirCalls[c].replayed.mtime

(***************************************************************************)
(* A directory that cannot be read.                                        *)
(***************************************************************************)
\* the cache entry of a path, or none
EntryOf(cache, dir) == IF dir \in DOMAIN cache THEN << cache[dir] >> ELSE << >>

\* the call t takes a step in which its stat or its readdir rejects
FailsNow(t) ==
  /\ scanActive
  /\ t \in DOMAIN tasks'
  /\ tasks'[t] # tasks[t]
  /\ \/ tasks[t].pc = "stat" /\ StatFails(t.dir)
     \/ tasks[t].pc = "readdir" /\ ReaddirFails(t.dir)

\* a directory that failed has the cache entry the scan found, none of its
\* files has been passed on, and no call for a subdirectory was started
\* through it
FailedDirsUntouched ==
  \A d \in cur.failed :
     /\ EntryOf(dirCache, d) = EntryOf(cur.cache0, d)
     /\ \A f \in BagToSet(cur.found) : f.dirPath # d
     /\ \A t \in DOMAIN tasks : ParentDir(t.dir) = d => IsRootTask(t)

\* C33 as stated: a directory whose stat or listing failed during a scan
\* has the cache entry it had before the scan, none of its files has been
\* passed to onFound and none of its subdirectories has been visited
\* through it in that scan.
C33_AsStated == FailedDirsUntouched

\* C33: the scanDirectory call whose stat or readdir rejects resolves in
\* that step and leaves the DirCache as it is, passes nothing to onFound
\* and starts no call; before that step it has only read the cache.  When
\* no directory is covered by two root entries, the directory is therefore
\* left as the claim says.
C33_FailedCallChangesNothing ==
  [][ /\ (\A e \in DirUniverse : Covering(cur, e) <= 1) => FailedDirsUntouched
      /\ \A t \in DOMAIN tasks :
        /\ FailsNow(t) =>
              /\ dirCache' = dirCache
              /\ cur'.found = cur.found
              /\ DOMAIN tasks' = DOMAIN tasks
              /\ \A x \in DOMAIN tasks : x # t => tasks'[x] = tasks[x]
              /\ tasks'[t].pc = "done"
              /\ t.dir \in cur'.failed
              /\ timings' = timings
        /\ (scanActive /\ t \in DOMAIN tasks' /\ tasks[t].pc = "stat"
               /\ tasks'[t].pc = "readdir") =>
              /\ dirCache' = dirCache
              /\ cur'.found = cur.found
              /\ DOMAIN tasks' = DOMAIN tasks ]_vars

\* a directory cached with a video file by an earlier scan has failed in
\* this one: its entry is the one the scan found, and nothing of it has
\* been passed on
C33_Witness ==
  \E d \in cur.failed :
     /\ d \in DOMAIN cur.cache0
     /\ Len(cur.cache0[d].videoFiles) > 0
     /\ dirCache[d] = cur.cache0[d]
     /\ \A f \in BagToSet(cur.found) : f.dirPath # d
     /\ cur.done

(***************************************************************************)
(* C36: the statistics scanDirectories returns.                            *)
(***************************************************************************)
\* the scanDirectory calls of the running scan that are not root calls
SubdirCalls == { t \in DOMAIN tasks : t # TaskOf(t.root, cur.roots[t.root]) }
\* the calls whose stat resolved
StatOkCalls == { t \in DOMAIN tasks : tasks[t].statOk }

\* C36: when scanDirectories returns, videoCount is the number of onFound
\* invocations of the scan, dirCount the number of scanDirectory calls
\* started for subdirectories, and readdirCount + cacheHits the number of
\* calls whose stat succeeded, which is at most the number of roots plus
\* dirCount.
C36_StatisticsOnReturn ==
  [][ (scanActive /\ ~scanActive') =>
        /\ lastStats'.videoCount = BagCardinality(cur.found)
        /\ lastStats'.dirCount = Cardinality(SubdirCalls)
        /\ lastStats'.readdirCount + lastStats'.cacheHits = Cardinality(StatOkCalls)
        /\ lastStats'.readdirCount + lastStats'.cacheHits
              <= Len(cur.roots) + lastStats'.dirCount ]_vars

\* a scan returned in which a stat failed, a listing failed after its stat
\* succeeded, a directory was served from the cache and subdirectories
\* were scanned
C36_Witness ==
  /\ cur.done
  /\ lastStats.dirCount > 0
  /\ lastStats.cacheHits > 0
  /\ lastStats.readdirCount > 0
  /\ cur.failed # {}
  /\ lastStats.readdirCount + lastStats.cacheHits < Len(cur.roots) + lastStats.dirCount

(***************************************************************************)
(* C34: every handleScan call returns.                                     *)
(***************************************************************************)
\* call g has returned
Returned(g) == g \in DOMAIN calls /\ calls[g].pc \in {"done", "superseded"}
\* the await of call g ends in this step
WaitEnds(g) == calls[g].pc = "waiting" /\ calls'[g].pc # "waiting"

\* C34: every handleScan call returns; its wait ends on a completion event
\* or, when a newer generation has started, by its poll, and when the wait
\* of the latest generation ends the loading flag is cleared.
C34_EveryScanReturns ==
  /\ \A g \in 1..MaxGen : (g \in DOMAIN calls) ~> Returned(g)
  /\ [][ \A g \in DOMAIN calls :
            WaitEnds(g) =>
              /\ \/ calls'[g].endedBy # 0
                 \/ calls'[g].endedBy = 0 /\ scanGenRef > g
              /\ scanGenRef = g => ~loading' ]_vars

\* a superseded call, whose completion listener the newer call removed,
\* was ended by its poll and has returned, and the latest call's wait has
\* ended with the loading flag cleared
C34_Witness ==
  /\ scanGenRef = 2
  /\ Returned(1)
  /\ calls[1].endedBy = 0
  /\ calls[2].pc # "waiting"
  /\ calls[2].endedBy # 0
  /\ ~loading

(***************************************************************************)
(* C35: the startup load and the scans.                                    *)
(***************************************************************************)
\* C35 as stated: every write of the startup load is applied before the
\* first handleScan call starts, and when the current call has finished
\* the NFO map shown is the one it built.
C35_AsStated ==
  /\ \A w \in writeLog : w.by = 0 => w.at = 0
  /\ scanGenRef \in DOMAIN calls /\ calls[scanGenRef].pc = "done"
        => nfoMap = calls[scanGenRef].map

\* the scan has finished and built an empty map from its files, and the
\* map shown is the one the startup load built from the snapshot
C35_Witness ==
  /\ scanGenRef = 1
  /\ calls[1].pc = "done"
  /\ calls[1].map = << >>
  /\ startup.pc = "done"
  /\ nfoMap = startup.map
  /\ nfoMap # << >>
  /\ [ by |-> 0, at |-> 1, what |-> "nfoMap" ] \in writeLog

(***************************************************************************)
(* C37: the selection of the DuplicateFinder and the clusters it reports.  *)
(***************************************************************************)
\* the paths of the files handed to the DuplicateFinder
FilePaths == { dupFiles[i].path : i \in 1..Len(dupFiles) }

\* C37 as stated: every selected path is a file of a reported cluster, and
\* so is every path of a deletion that was asked for or confirmed.
C37_AsStated ==
  /\ selectedPaths \subseteq ListedPaths
  /\ deleteCall.pc \in {"confirm", "deleting"} => deleteCall.paths \subseteq ListedPaths

\* deleteFiles has been invoked for a file that is in the list and in no
\* reported cluster
C37_Witness ==
  /\ deleteCall.pc = "deleting"
  /\ \E p \in deleteCall.paths : p \in FilePaths /\ p \notin ListedPaths

(***************************************************************************)
(* C38: the list after 'delete folder'.                                    *)
(***************************************************************************)
\* directory dir is d or lies below d
InOrBelow(dir, d) == dir = d \/ IsPrefix(d \o <<SEP>>, dir)

\* C38 as stated: the list shows no file whose directory is a removed
\* directory or lies below one.
C38_AsStated ==
  \A i \in 1..Len(listFiles) : \A d \in removedDirs : ~InOrBelow(listFiles[i].dirPath, d)

\* the directory of two movies was removed for one of them; the other,
\* and the movie in the directory below, are still listed
C38_Witness ==
  /\ removedDirs = { FolderDirA }
  /\ folderCall.pc = "idle"
  /\ \E i \in 1..Len(listFiles) : listFiles[i].dirPath = FolderDirA
  /\ \E i \in 1..Len(listFiles) : listFiles[i].dirPath = FolderDirAS

(***************************************************************************)
(* C39: the first save of a sidecar and the scan after it.                 *)
(***************************************************************************)
\* the sidecar path the group's parts carry in the list: the set of the
\* nfoPath values of the files that were parts of the group
PartPaths(group) == { group.parts[i].path : i \in 1..Len(group.parts) }
NfoPathsOfParts(group) ==
  { listFiles[i].nfoPath : i \in { k \in 1..Len(listFiles) : listFiles[k].path \in PartPaths(group) } }

\* the path the claim names for a first save
NamedSidecar(group) ==
  LET primary == LastName(group.primaryPath)
  IN  IF group.partCount > 1
      THEN Join(group.dirPath, group.baseName \o NfoExt)
      ELSE Join(group.dirPath, BaseNameNoExt(primary, ExtName(primary)) \o NfoExt)

\* after a successful first save the file is at the named path and every
\* part of the group carries that path, in memory and after the next scan
FirstSaveKept ==
  firstSave.pc \in {"saved", "rescanned"} =>
     /\ firstSave.nfoPath = NamedSidecar(firstSave.group)
     /\ NfoPathsOfParts(firstSave.group) = { firstSave.nfoPath }

\* C39 as stated: after a successful first save of a group without
\* sidecar, the file is at <dir>/<baseName>.nfo for a group of several
\* parts and at <dir>/<primary name without extension>.nfo otherwise, every
\* part carries that path in memory, and so it does after the next scan.
C39_AsStated == FirstSaveKept

\* the sidecar of the two parts whose base name is empty was saved under
\* the name of the first part, and after the scan the second part has none
C39_Witness ==
  /\ firstSave.pc = "rescanned"
  /\ firstSave.group.partCount = 2
  /\ firstSave.group.baseName = << >>
  /\ firstSave.nfoPath # NamedSidecar(firstSave.group)
  /\ << >> \in NfoPathsOfParts(firstSave.group)

====
